---- MODULE Spec2Model ----
(***************************************************************************)
(* Green-Cart-Logistics: the delivery simulation engine                    *)
(* (backend/routes/simulation.js) and the POST /api/simulation/run         *)
(* handler around it, over the drivers, routes, orders and                 *)
(* simulationresults collections.                                          *)
(*                                                                         *)
(* Units.  JavaScript numbers with one decimal are kept as integers in     *)
(* tenths: a route's distance is in tenths of a km (89 is 8.9 km), money   *)
(* accumulated by the engine is in tenths of a rupee, a fatigue multiplier *)
(* is in tenths (7 is 0.7) and efficiency_score is in tenths of a percent  *)
(* (1000 is 100.0).  Fields the engine rounds with Math.round              *)
(* (total_profit, the fuel_cost_breakdown) are whole rupees.               *)
(***************************************************************************)
EXTENDS Integers, Sequences, FiniteSets, TLC

\* ------------------------------------------------------------------ bounds
MaxDrivers == 2
MaxOrders == 3
MaxRequests == 1

\* ------------------------------------------------------- program constants
FuelRatePerKm == 5
SurchargePerKm == 2
FatigueThresholdHours == 8
FatiguedMultiplier == 7
NormalMultiplier == 10
GraceMinutes == 10
LatePenalty == 50
HighValueThreshold == 1000
BonusPercent == 10
WeekLength == 7
HoursInDay == 24
MaxHoursPerDayLimit == 24

Undefined == [undefined |-> TRUE]

\* ------------------------------------------------------------ JS helpers
Digits == {"0", "1", "2", "3", "4", "5", "6", "7", "8", "9"}

DigitVal(c) ==
  CASE c = "0" -> 0 [] c = "1" -> 1 [] c = "2" -> 2 [] c = "3" -> 3
    [] c = "4" -> 4 [] c = "5" -> 5 [] c = "6" -> 6 [] c = "7" -> 7
    [] c = "8" -> 8 [] c = "9" -> 9

RECURSIVE NumberOf(_)
\* Number("07") = 7 for a string of decimal digits
NumberOf(s) ==
  IF Len(s) = 0 THEN 0
  ELSE 10 * NumberOf(SubSeq(s, 1, Len(s) - 1)) + DigitVal(s[Len(s)])

\* the alternation ([0-1]?[0-9]|2[0-3]) anchored on both sides
MatchesHourPart(h) ==
  \/ Len(h) = 1 /\ h[1] \in Digits
  \/ Len(h) = 2 /\ h[1] \in {"0", "1"} /\ h[2] \in Digits
  \/ Len(h) = 2 /\ h[1] = "2" /\ h[2] \in {"0", "1", "2", "3"}

\* /^([0-1]?[0-9]|2[0-3]):[0-5][0-9]$/ on a string given as its characters
MatchesTimeRegex(s) ==
  \E k \in 1..Len(s) :
     /\ s[k] = ":"
     /\ MatchesHourPart(SubSeq(s, 1, k - 1))
     /\ Len(s) = k + 2
     /\ s[k + 1] \in {"0", "1", "2", "3", "4", "5"}
     /\ s[k + 2] \in Digits

\* timeString.split(':').map(Number); hours * 60 + minutes
timeToMinutes(timeString) ==
  LET k == CHOOSE i \in 1..Len(timeString) : timeString[i] = ":"
      hours == NumberOf(SubSeq(timeString, 1, k - 1))
      minutes == NumberOf(SubSeq(timeString, k + 1, Len(timeString)))
  IN  hours * 60 + minutes

\* variant: halves rounded down, ceil(x - 0.5)
MathRoundHalfDown(tenths) == (tenths + 4) \div 10

\* Math.round on a value held in tenths: floor(x + 0.5)
MathRound(tenths) == (tenths + 5) \div 10

\* variant: the score truncated to one decimal, Math.floor(x * 10) / 10
TruncateToOneDecimal(num, den) == (1000 * num) \div den

\* Math.round(x * 10) / 10 for x = 100 * num / den, den > 0; result in tenths
RoundToOneDecimal(num, den) == (2 * 1000 * num + den) \div (2 * den)


\* ------------------------------------------------------------- the store
VARIABLES
  drivers,      \* Driver collection, in the store's default order
  routes,       \* Route collection (route_id is a unique index)
  orders,       \* Order collection, in the store's default order
  history,      \* SimulationResult collection, in insertion order
  clock,        \* what new Date() returns, as a logical time
  pc,           \* the POST /run request in flight: where its handler stands
  body,         \* req.body of that request
  driverCount,  \* the handler's local driverCount
  fetched,      \* the engine's locals drivers, routes, orders
  result,       \* what runDeliverySimulation returned or threw
  response,     \* the HTTP response sent, or NoResponse
  picks,        \* the values Math.floor(Math.random() * drivers.length) took
  nreq,         \* requests received so far
  historyPc,    \* the GET /history request in flight: where its handler stands
  query,        \* req.query of that request
  found,        \* its local results, and the collection the find read
  listing,      \* the HTTP response it sent, or NoResponse
  runs,         \* POST /run requests in flight side by side, by request number
  crud,         \* the response to the latest route or order request
  reqs,         \* route and order requests in flight side by side
  snapshots,    \* the stores as they stood at each instant since the run began
  local,        \* the DataProvider's state: its drivers and simulationResults
  calls         \* the DataProvider's calls in flight

vars == <<drivers, routes, orders, history, clock, pc, body, driverCount,
          fetched, result, response, picks, nreq,
          historyPc, query, found, listing, runs, crud,
          reqs, snapshots, local, calls>>

\* the requests other than the single POST /run
historyVars == <<historyPc, query, found, listing>>
clientVars == <<local, calls>>
laterVars == <<reqs, snapshots, clientVars>>
otherVars == <<historyVars, runs, crud, laterVars>>

storeVars == <<drivers, routes, orders>>
requestVars == <<pc, body, driverCount, response, nreq>>

\* documents the collections are drawn from
DriverPool ==
  << [_id |-> 1, shift_hours |-> 8,  past_week_hours |-> <<8, 8, 8, 8, 8, 6, 5>>],
     [_id |-> 2, shift_hours |-> 10, past_week_hours |-> <<10, 9, 8, 8, 9, 7, 8>>],
     [_id |-> 3, shift_hours |-> 9,  past_week_hours |-> <<6, 7, 8, 9, 10, 8, 9>>] >>

RoutePool ==
  { [route_id |-> 1, distance |-> 50, traffic_level |-> "Low",    base_time |-> 30],
    [route_id |-> 1, distance |-> 89, traffic_level |-> "High",   base_time |-> 23],
    [route_id |-> 2, distance |-> 80, traffic_level |-> "High",   base_time |-> 45],
    [route_id |-> 2, distance |-> 25, traffic_level |-> "Medium", base_time |-> 24] }

OrderPool ==
  << [order_id |-> 1, value_rs |-> 500,  route_id |-> 1, delivery_time |-> <<"0", "1", ":", "0", "0">>],
     [order_id |-> 2, value_rs |-> 1500, route_id |-> 2, delivery_time |-> <<"0", "1", ":", "3", "0">>],
     [order_id |-> 3, value_rs |-> 1000, route_id |-> 1, delivery_time |-> <<"9", ":", "1", "5">>],
     [order_id |-> 4, value_rs |-> 1500, route_id |-> 1, delivery_time |-> <<"2", "3", ":", "5", "9">>],
     [order_id |-> 5, value_rs |-> 1500, route_id |-> 3, delivery_time |-> <<"0", "0", ":", "4", "5">>],
     [order_id |-> 6, value_rs |-> 20,   route_id |-> 2, delivery_time |-> <<"0", "2", ":", "0", "0">>] >>

\* Driver schema validator: 7 entries, each 0..24; shift_hours 1..24
ValidDriver(d) ==
  /\ d.shift_hours >= 1 /\ d.shift_hours <= HoursInDay
  /\ Len(d.past_week_hours) = WeekLength
  /\ \A i \in 1..Len(d.past_week_hours) :
        d.past_week_hours[i] >= 0 /\ d.past_week_hours[i] <= HoursInDay

\* Route schema: route_id >= 1, distance >= 0.1 km, base_time >= 1 minute
ValidRoute(r) ==
  /\ r.route_id >= 1
  /\ r.distance >= 1
  /\ r.traffic_level \in {"Low", "Medium", "High"}
  /\ r.base_time >= 1

\* Order schema: order_id >= 1, value_rs >= 1, route_id >= 1, delivery_time matches
ValidOrder(o) ==
  /\ o.order_id >= 1
  /\ o.value_rs >= 1
  /\ o.route_id >= 1
  /\ MatchesTimeRegex(o.delivery_time)

IsIncreasing(f) == \A i, j \in DOMAIN f : i < j => f[i] < f[j]

\* the documents of a pool at increasing positions, up to max of them
Selections(pool, max) ==
  { [i \in DOMAIN f |-> pool[f[i]]] :
      f \in { g \in UNION { [1..k -> 1..Len(pool)] : k \in 0..max } : IsIncreasing(g) } }

IsInjective(f) == \A i, j \in DOMAIN f : i # j => f[i] # f[j]

\* driver collections: distinct documents the schema accepts, in any order
DriverStores ==
  { [i \in DOMAIN f |-> DriverPool[f[i]]] :
      f \in { g \in UNION { [1..k -> 1..Len(DriverPool)] : k \in 0..MaxDrivers } :
                IsInjective(g) /\ \A i \in DOMAIN g : ValidDriver(DriverPool[g[i]]) } }

\* route collections: documents the schema accepts, route_id unique
RouteStores ==
  { rs \in SUBSET { r \in RoutePool : ValidRoute(r) } :
      \A r1, r2 \in rs : r1.route_id = r2.route_id => r1 = r2 }

\* order collections: documents the schema accepts, order_id unique
OrderStores ==
  { os \in Selections(OrderPool, MaxOrders) : \A i \in DOMAIN os : ValidOrder(os[i]) }


\* ------------------------------------------------- the simulation engine
Min(a, b) == IF a < b THEN a ELSE b

\* variant: the limit is dropped, Model.find()
FindNoLimit(collection, n) == collection

\* Model.find().limit(n): the first n documents of the collection
FindLimit(collection, n) == SubSeq(collection, 1, Min(n, Len(collection)))

\* routes.forEach(route => routeMap[route.route_id] = route)
RouteMapOf(rs) ==
  [id \in { r.route_id : r \in rs } |-> CHOOSE r \in rs : r.route_id = id]

\* routeMap[order.route_id], undefined when no route has that id
RouteLookup(routeMap, id) ==
  IF id \in DOMAIN routeMap THEN routeMap[id] ELSE Undefined

\* variant: the first entry is read, driver.past_week_hours[0]
YesterdayHoursFirstEntry(driver) == driver.past_week_hours[1]

\* driver.past_week_hours[driver.past_week_hours.length - 1]
YesterdayHours(driver) == driver.past_week_hours[Len(driver.past_week_hours)]

\* variant: the hours are not consulted, every driver gets 1.0
FatigueMultiplierIgnoresHours(driver) == NormalMultiplier

\* yesterdayHours > 8 ? 0.7 : 1.0
FatigueMultiplier(driver) ==
  IF YesterdayHours(driver) > FatigueThresholdHours
  THEN FatiguedMultiplier ELSE NormalMultiplier

\* drivers.forEach(driver => driverFatigue[driver._id] = ...)
DriverFatigueOf(ds) ==
  [id \in { ds[i]._id : i \in 1..Len(ds) } |->
     FatigueMultiplier(ds[CHOOSE i \in 1..Len(ds) : ds[i]._id = id])]

\* route.distance * 5, in tenths of a rupee
BaseFuelCost(route) == route.distance * FuelRatePerKm

\* variant: the surcharge charged whatever the traffic level
SurchargeAnyTraffic(route) == route.distance * SurchargePerKm

\* variant: the surcharge is charged on every level but Low
SurchargeUnlessLow(route) ==
  IF route.traffic_level # "Low" THEN route.distance * SurchargePerKm ELSE 0

\* route.traffic_level === 'High' ? route.distance * 2 : 0
Surcharge(route) ==
  IF route.traffic_level = "High" THEN route.distance * SurchargePerKm ELSE 0

\* variant: no grace period, actualDeliveryTime <= baseRouteMinutes
IsOnTimeWithoutGrace(baseRouteMinutes, fatigueMultiplier) ==
  10 * baseRouteMinutes <= baseRouteMinutes * fatigueMultiplier

\* baseRouteMinutes / fatigueMultiplier <= baseRouteMinutes + 10, the
\* multiplier in tenths: b / (m/10) <= b + 10 iff 10 * b <= (b + 10) * m
IsOnTime(baseRouteMinutes, fatigueMultiplier) ==
  10 * baseRouteMinutes <= (baseRouteMinutes + GraceMinutes) * fatigueMultiplier

\* variant: the bonus is 5% of the value, order.value_rs * 0.05
HighValueBonusFivePercent(order) == (order.value_rs * 10 * BonusPercent) \div 200

\* order.value_rs * 0.1, in tenths of a rupee
HighValueBonus(order) == (order.value_rs * 10 * BonusPercent) \div 100

\* variant: the threshold is inclusive, order.value_rs >= 1000
IsHighValueFromThreshold(order) == order.value_rs >= HighValueThreshold

\* order.value_rs > 1000
IsHighValue(order) == order.value_rs > HighValueThreshold

InitialAccumulators ==
  [totalProfit |-> 0, onTimeDeliveries |-> 0, lateDeliveries |-> 0,
   totalFuelCost |-> 0, totalSurcharge |-> 0, draws |-> 0]

\* variant: an order with no route is counted as a late delivery and
\* penalised instead of being skipped
ProcessOrderPenalisesUnrouted(acc, order, routeMap, ds, driverFatigue, rnd) ==
  LET route == RouteLookup(routeMap, order.route_id) IN
  IF route = Undefined
  THEN [acc EXCEPT !.lateDeliveries = @ + 1,
                   !.totalProfit = @ - LatePenalty * 10]
  ELSE
    LET orderFuelCost == BaseFuelCost(route) + Surcharge(route)
        randomDriver == ds[rnd[acc.draws + 1] + 1]
        onTime == IsOnTime(route.base_time, driverFatigue[randomDriver._id])
        bonus == IF onTime /\ IsHighValue(order) THEN HighValueBonus(order) ELSE 0
        penalty == IF onTime THEN 0 ELSE LatePenalty * 10
    IN  [totalProfit      |-> acc.totalProfit + bonus - penalty
                                + (order.value_rs * 10 - orderFuelCost),
         onTimeDeliveries |-> acc.onTimeDeliveries + (IF onTime THEN 1 ELSE 0),
         lateDeliveries   |-> acc.lateDeliveries + (IF onTime THEN 0 ELSE 1),
         totalFuelCost    |-> acc.totalFuelCost + BaseFuelCost(route),
         totalSurcharge   |-> acc.totalSurcharge + Surcharge(route),
         draws            |-> acc.draws + 1]

\* variant: the on-time test compares the actual time with the order's
\* delivery_time, actualDeliveryTime <= expectedDeliveryMinutes
ProcessOrderUsesDeliveryTime(acc, order, routeMap, ds, driverFatigue, rnd) ==
  LET route == RouteLookup(routeMap, order.route_id) IN
  IF route = Undefined THEN acc
  ELSE
    LET orderFuelCost == BaseFuelCost(route) + Surcharge(route)
        expectedDeliveryMinutes == timeToMinutes(order.delivery_time)
        randomDriver == ds[rnd[acc.draws + 1] + 1]
        onTime == 10 * route.base_time
                    <= expectedDeliveryMinutes * driverFatigue[randomDriver._id]
        bonus == IF onTime /\ IsHighValue(order) THEN HighValueBonus(order) ELSE 0
        penalty == IF onTime THEN 0 ELSE LatePenalty * 10
    IN  [totalProfit      |-> acc.totalProfit + bonus - penalty
                                + (order.value_rs * 10 - orderFuelCost),
         onTimeDeliveries |-> acc.onTimeDeliveries + (IF onTime THEN 1 ELSE 0),
         lateDeliveries   |-> acc.lateDeliveries + (IF onTime THEN 0 ELSE 1),
         totalFuelCost    |-> acc.totalFuelCost + BaseFuelCost(route),
         totalSurcharge   |-> acc.totalSurcharge + Surcharge(route),
         draws            |-> acc.draws + 1]

\* variant: the bonus is paid on value alone, whether or not the order
\* was on time
ProcessOrderKeepsBonusWhenLate(acc, order, routeMap, ds, driverFatigue, rnd) ==
  LET route == RouteLookup(routeMap, order.route_id) IN
  IF route = Undefined THEN acc
  ELSE
    LET orderFuelCost == BaseFuelCost(route) + Surcharge(route)
        randomDriver == ds[rnd[acc.draws + 1] + 1]
        onTime == IsOnTime(route.base_time, driverFatigue[randomDriver._id])
        bonus == IF IsHighValue(order) THEN HighValueBonus(order) ELSE 0
        penalty == IF onTime THEN 0 ELSE LatePenalty * 10
    IN  [totalProfit      |-> acc.totalProfit + bonus - penalty
                                + (order.value_rs * 10 - orderFuelCost),
         onTimeDeliveries |-> acc.onTimeDeliveries + (IF onTime THEN 1 ELSE 0),
         lateDeliveries   |-> acc.lateDeliveries + (IF onTime THEN 0 ELSE 1),
         totalFuelCost    |-> acc.totalFuelCost + BaseFuelCost(route),
         totalSurcharge   |-> acc.totalSurcharge + Surcharge(route),
         draws            |-> acc.draws + 1]

\* one iteration of the for loop; rnd[k] is the k-th value of
\* Math.floor(Math.random() * drivers.length)
ProcessOrder(acc, order, routeMap, ds, driverFatigue, rnd) ==
  LET route == RouteLookup(routeMap, order.route_id) IN
  IF route = Undefined THEN acc
  ELSE
    LET baseFuelCost == BaseFuelCost(route)
        surcharge == Surcharge(route)
        orderFuelCost == baseFuelCost + surcharge
        expectedDeliveryMinutes == timeToMinutes(order.delivery_time)
        randomDriver == ds[rnd[acc.draws + 1] + 1]
        fatigueMultiplier == driverFatigue[randomDriver._id]
        onTime == IsOnTime(route.base_time, fatigueMultiplier)
        bonus == IF onTime /\ IsHighValue(order) THEN HighValueBonus(order) ELSE 0
        penalty == IF onTime THEN 0 ELSE LatePenalty * 10
    IN  [totalProfit      |-> acc.totalProfit + bonus - penalty
                                + (order.value_rs * 10 - orderFuelCost),
         onTimeDeliveries |-> acc.onTimeDeliveries + (IF onTime THEN 1 ELSE 0),
         lateDeliveries   |-> acc.lateDeliveries + (IF onTime THEN 0 ELSE 1),
         totalFuelCost    |-> acc.totalFuelCost + baseFuelCost,
         totalSurcharge   |-> acc.totalSurcharge + surcharge,
         draws            |-> acc.draws + 1]

RECURSIVE ProcessOrdersStopAtLate(_, _, _, _, _, _, _)
\* variant: the loop ends at the first late delivery (break for continue)
ProcessOrdersStopAtLate(os, i, acc, routeMap, ds, driverFatigue, rnd) ==
  IF i > Len(os) \/ acc.lateDeliveries > 0 THEN acc
  ELSE ProcessOrdersStopAtLate(os, i + 1,
                     ProcessOrder(acc, os[i], routeMap, ds, driverFatigue, rnd),
                     routeMap, ds, driverFatigue, rnd)

RECURSIVE ProcessOrders(_, _, _, _, _, _, _)
\* for (const order of orders) { ... } from the i-th order on
ProcessOrders(os, i, acc, routeMap, ds, driverFatigue, rnd) ==
  IF i > Len(os) THEN acc
  ELSE ProcessOrders(os, i + 1,
                     ProcessOrder(acc, os[i], routeMap, ds, driverFatigue, rnd),
                     routeMap, ds, driverFatigue, rnd)

\* totalDeliveries > 0 ? (onTimeDeliveries / totalDeliveries) * 100 : 0,
\* then Math.round(efficiencyScore * 10) / 10; in tenths of a percent
EfficiencyScore(onTimeDeliveries, lateDeliveries) ==
  LET totalDeliveries == onTimeDeliveries + lateDeliveries IN
  IF totalDeliveries > 0
  THEN RoundToOneDecimal(onTimeDeliveries, totalDeliveries)
  ELSE 0

\* the returned object
KpiRecord(acc, params, now) ==
  [total_profit       |-> MathRound(acc.totalProfit),
   efficiency_score   |-> EfficiencyScore(acc.onTimeDeliveries, acc.lateDeliveries),
   on_time_deliveries |-> acc.onTimeDeliveries,
   late_deliveries    |-> acc.lateDeliveries,
   fuel_cost_breakdown |->
     [base_cost |-> MathRound(acc.totalFuelCost),
      surcharge |-> MathRound(acc.totalSurcharge),
      total     |-> MathRound(acc.totalFuelCost + acc.totalSurcharge)],
   simulation_params  |-> params,
   timestamp          |-> now]

\* SimulationResult schema: efficiency_score 0..100, the counts >= 0
SchemaAccepts(doc) ==
  /\ doc.efficiency_score >= 0 /\ doc.efficiency_score <= 1000
  /\ doc.on_time_deliveries >= 0
  /\ doc.late_deliveries >= 0

\* orders whose route_id has a route: the number of Math.random() calls
Resolvable(os, rs) ==
  { i \in 1..Len(os) : \E r \in rs : r.route_id = os[i].route_id }

\* runDeliverySimulation after its three fetches: ds, rs, os are what
\* Driver.find().limit(n), Route.find() and Order.find() returned
Simulate(params, ds, rs, os, rnd, now) ==
  IF Len(ds) < params.available_drivers
  THEN [kind |-> "threw", available |-> Len(ds),
        requested |-> params.available_drivers]
  ELSE LET acc == ProcessOrders(os, 1, InitialAccumulators, RouteMapOf(rs),
                                ds, DriverFatigueOf(ds), rnd)
       IN  [kind |-> "ok", value |-> KpiRecord(acc, params, now)]

\* every outcome of the random picks for a run over ds, rs, os
RandomPicks(ds, rs, os) ==
  IF Len(ds) = 0 THEN { <<>> }
  ELSE [1..Cardinality(Resolvable(os, rs)) -> 0..(Len(ds) - 1)]

NoResult == [kind |-> "none"]
NoResponse == [status |-> 0]
NoFetch == [drivers |-> <<>>, routes |-> {}, orders |-> <<>>]
NoBody == [available_drivers |-> 0, start_time |-> <<>>, max_hours_per_day |-> 0]
NoQuery == [given |-> {}, limit |-> <<>>, page |-> <<>>]
NoFound == [docs |-> <<>>, read |-> <<>>]
NoCrud == [pc |-> "idle"]

\* no request other than the single POST /run is in flight
\* a JavaScript array held in the DataProvider's state
JsArray(items) == [isArray |-> TRUE, items |-> items]

\* useState<Driver[]>([]), useState<SimulationResult[]>([])
NoLocal == [drivers |-> <<>>, simulationResults |-> JsArray(<<>>)]

OthersIdle ==
  /\ historyPc = "idle"
  /\ query = NoQuery
  /\ found = NoFound
  /\ listing = NoResponse
  /\ runs = <<>>
  /\ crud = NoCrud
  /\ reqs = <<>>
  /\ snapshots = {}
  /\ local = NoLocal
  /\ calls = <<>>

T0900 == <<"0", "9", ":", "0", "0">>

\* ----------------------------------------- the engine called on its own
EngineParams ==
  { [available_drivers |-> n, start_time |-> T0900, max_hours_per_day |-> 8] :
      n \in 1..(MaxDrivers + 1) }

InitEngine ==
  /\ drivers \in DriverStores
  /\ routes \in RouteStores
  /\ orders \in OrderStores
  /\ history = <<>>
  /\ clock = 0
  /\ pc = "idle"
  /\ body = NoBody
  /\ driverCount = 0
  /\ fetched = NoFetch
  /\ result = NoResult
  /\ response = NoResponse
  /\ picks = <<>>
  /\ nreq = 0
  /\ OthersIdle

\* await runDeliverySimulation(params) against an unchanging store
RunDeliverySimulation ==
  /\ result = NoResult
  /\ \E params \in EngineParams :
       LET ds == FindLimit(drivers, params.available_drivers) IN
       \E rnd \in RandomPicks(ds, routes, orders) :
         /\ fetched' = [drivers |-> ds, routes |-> routes, orders |-> orders]
         /\ picks' = rnd
         /\ result' = Simulate(params, ds, routes, orders, rnd, clock)
  /\ UNCHANGED <<otherVars, storeVars, history, clock, requestVars>>

NextEngine == RunDeliverySimulation

SpecEngine == InitEngine /\ [][NextEngine]_vars


\* ------------------------------------------- properties of the engine
HasRoute(order, rs) == \E r \in rs : r.route_id = order.route_id

RECURSIVE KeepRouted(_, _)
\* the orders of os that have a route, in order
KeepRouted(os, rs) ==
  IF Len(os) = 0 THEN <<>>
  ELSE (IF HasRoute(Head(os), rs) THEN <<Head(os)>> ELSE <<>>)
       \o KeepRouted(Tail(os), rs)

RemoveAt(seq, i) == SubSeq(seq, 1, i - 1) \o SubSeq(seq, i + 1, Len(seq))
InsertAt(seq, k, x) == SubSeq(seq, 1, k) \o <<x>> \o SubSeq(seq, k + 1, Len(seq))

UnroutedPoolOrders(rs) ==
  { OrderPool[i] : i \in { j \in 1..Len(OrderPool) : ~HasRoute(OrderPool[j], rs) } }

\* the run whose outcome `result` holds, repeated over other orders with
\* the same random picks
RerunWith(os) ==
  Simulate(result.value.simulation_params, fetched.drivers, fetched.routes, os,
           picks, result.value.timestamp)

Kpis(doc) ==
  [total_profit |-> doc.total_profit,
   efficiency_score |-> doc.efficiency_score,
   on_time_deliveries |-> doc.on_time_deliveries,
   late_deliveries |-> doc.late_deliveries,
   fuel_cost_breakdown |-> doc.fuel_cost_breakdown]

Returned == result.kind = "ok"

\* C1: skip invariant.  A run that returns gives the same KPIs as the run
\* with the same picks over the orders with every unrouted order removed,
\* with any one unrouted order removed, and with an unrouted order added at
\* any position; none of these runs throws.
C1_SkipInvariant ==
  Returned =>
    LET os == fetched.orders
        rs == fetched.routes
    IN  /\ RerunWith(KeepRouted(os, rs)).kind = "ok"
        /\ Kpis(RerunWith(KeepRouted(os, rs)).value) = Kpis(result.value)
        /\ \A i \in 1..Len(os) :
             ~HasRoute(os[i], rs) =>
               /\ RerunWith(RemoveAt(os, i)).kind = "ok"
               /\ Kpis(RerunWith(RemoveAt(os, i)).value) = Kpis(result.value)
        /\ \A k \in 0..Len(os) : \A o \in UnroutedPoolOrders(rs) :
               /\ RerunWith(InsertAt(os, k, o)).kind = "ok"
               /\ Kpis(RerunWith(InsertAt(os, k, o)).value) = Kpis(result.value)

\* a returned run over an unrouted order followed by routed ones, one of
\* them late
C1_Witness ==
  /\ Returned
  /\ Len(fetched.orders) >= 2
  /\ ~HasRoute(fetched.orders[Len(fetched.orders)], fetched.routes)
  /\ HasRoute(fetched.orders[1], fetched.routes)
  /\ result.value.late_deliveries >= 1
  /\ result.value.fuel_cost_breakdown.surcharge > 0

\* C2: on_time_deliveries + late_deliveries is the number of stored orders
\* whose route_id is the route_id of a stored route, for every
\* available_drivers and all random picks.
C2_CountsCoverRoutedOrders ==
  Returned =>
    result.value.on_time_deliveries + result.value.late_deliveries
      = Cardinality({ i \in 1..Len(orders) : HasRoute(orders[i], routes) })

\* a run over three orders, one unrouted, with one on time and one late
C2_Witness ==
  /\ Returned
  /\ Len(orders) = 3
  /\ \E i \in 1..Len(orders) : ~HasRoute(orders[i], routes)
  /\ result.value.on_time_deliveries = 1
  /\ result.value.late_deliveries = 1
  /\ result.value.simulation_params.available_drivers = 2

\* C3: fuel_cost_breakdown.total = base_cost + surcharge in every result.
C3_FuelTotalIsSum ==
  Returned =>
    result.value.fuel_cost_breakdown.total
      = result.value.fuel_cost_breakdown.base_cost
        + result.value.fuel_cost_breakdown.surcharge

RECURSIVE SumOver(_, _)
\* the sum of f over the indices in S
SumOver(S, f) ==
  IF S = {} THEN 0
  ELSE LET i == CHOOSE j \in S : TRUE IN f[i] + SumOver(S \ {i}, f)

RoutedIndices == { i \in 1..Len(fetched.orders) : HasRoute(fetched.orders[i], fetched.routes) }

RouteOfOrder(i) ==
  CHOOSE r \in fetched.routes : r.route_id = fetched.orders[i].route_id

\* the driver picked for the i-th order: the k-th pick for the k-th routed order
DriverOfOrder(i) ==
  fetched.drivers[picks[Cardinality({ j \in RoutedIndices : j <= i })] + 1]

\* b / m <= b + 10 for the picked driver's multiplier m (1.0 or 0.7)
DeliveredOnTime(i) ==
  IF DriverOfOrder(i).past_week_hours[7] > 8
  THEN 10 * RouteOfOrder(i).base_time <= 7 * (RouteOfOrder(i).base_time + 10)
  ELSE TRUE

\* the claimed profit, in tenths of a rupee, before rounding
ClaimedProfitTenths ==
  LET net == [i \in RoutedIndices |->
                10 * fetched.orders[i].value_rs
                - 5 * RouteOfOrder(i).distance
                - (IF RouteOfOrder(i).traffic_level = "High"
                   THEN 2 * RouteOfOrder(i).distance ELSE 0)]
      bonus == [i \in RoutedIndices |->
                  IF DeliveredOnTime(i) /\ fetched.orders[i].value_rs > 1000
                  THEN fetched.orders[i].value_rs ELSE 0]
      penalty == [i \in RoutedIndices |-> IF DeliveredOnTime(i) THEN 0 ELSE 500]
  IN  SumOver(RoutedIndices, net) + SumOver(RoutedIndices, bonus)
      - SumOver(RoutedIndices, penalty)

C5_EfficiencyScore ==
  Returned =>
    LET on == result.value.on_time_deliveries
        total == result.value.on_time_deliveries + result.value.late_deliveries
        score == result.value.efficiency_score
    IN  /\ total = 0 => score = 0
        /\ total > 0 => /\ 2 * 1000 * on - total <= 2 * score * total
                        /\ 2 * score * total <= 2 * 1000 * on + total
        /\ score >= 0 /\ score <= 1000
        /\ SchemaAccepts(result.value)

\* two of three processed orders on time: 66.666... reported as 66.7
C5_Witness ==
  /\ Returned
  /\ result.value.on_time_deliveries = 2
  /\ result.value.late_deliveries = 1
  /\ result.value.efficiency_score = 667

\* an order was stored but none processed: the score is 0
C5_WitnessNoneProcessed ==
  /\ Returned
  /\ Len(orders) >= 1
  /\ result.value.on_time_deliveries + result.value.late_deliveries = 0
  /\ result.value.efficiency_score = 0

\* value - fuel of every routed order plus the bonus of every one above
\* 1000, in tenths of a rupee: the profit when nothing is late
PenaltyFreeProfitTenths ==
  LET gain == [i \in RoutedIndices |->
                 10 * fetched.orders[i].value_rs
                 - BaseFuelCost(RouteOfOrder(i)) - Surcharge(RouteOfOrder(i))
                 + (IF fetched.orders[i].value_rs > 1000
                    THEN fetched.orders[i].value_rs ELSE 0)]
  IN  SumOver(RoutedIndices, gain)

\* C9: when each of the first available_drivers stored drivers worked at
\* most 8 hours on the last day, no delivery is late and no penalty is
\* charged, whatever the picks and whatever the other drivers' hours.
C9_RestedSubsetNeverLate ==
  Returned =>
    LET n == result.value.simulation_params.available_drivers IN
    (\A i \in 1..n : drivers[i].past_week_hours[7] <= 8) =>
       /\ result.value.late_deliveries = 0
       /\ result.value.on_time_deliveries
            = Cardinality({ i \in 1..Len(orders) : HasRoute(orders[i], routes) })
       /\ 10 * result.value.total_profit - 5 <= PenaltyFreeProfitTenths
       /\ PenaltyFreeProfitTenths < 10 * result.value.total_profit + 5

\* one rested driver selected, a fatigued one stored after it, and orders
\* on a 45-minute route
C9_Witness ==
  /\ Returned
  /\ result.value.simulation_params.available_drivers = 1
  /\ Len(drivers) = 2
  /\ drivers[1].past_week_hours[7] <= 8
  /\ drivers[2].past_week_hours[7] > 8
  /\ \E i \in RoutedIndices : RouteOfOrder(i).base_time >= 45
  /\ Cardinality(RoutedIndices) >= 2
  /\ result.value.late_deliveries = 0

\* the end-to-end scenario's store: one driver (last day 5 hours), one route
\* {5 km, Low, 30 min}, one order of 500 on it
ScenarioStore ==
  /\ Len(drivers) = 1 /\ drivers[1].past_week_hours[7] = 5
  /\ routes = { [route_id |-> 1, distance |-> 50, traffic_level |-> "Low", base_time |-> 30] }
  /\ Len(orders) = 1 /\ orders[1].value_rs = 500 /\ orders[1].route_id = 1

\* params.available_drivers of the run whose outcome `result` holds
RequestedDrivers ==
  IF result.kind = "threw" THEN result.requested
  ELSE result.value.simulation_params.available_drivers

\* C10: in the scenario every run with available_drivers = 1 returns 1 on
\* time, 0 late, fuel {25, 0, 25}, profit 475 and efficiency 100.0.
C10_Scenario500 ==
  (ScenarioStore /\ result # NoResult /\ RequestedDrivers = 1) =>
    /\ Returned
    /\ result.value.on_time_deliveries = 1
    /\ result.value.late_deliveries = 0
    /\ result.value.fuel_cost_breakdown = [base_cost |-> 25, surcharge |-> 0, total |-> 25]
    /\ result.value.total_profit = 475
    /\ result.value.efficiency_score = 1000

C10_Witness ==
  /\ ScenarioStore
  /\ Returned
  /\ result.value.simulation_params.available_drivers = 1
  /\ result.value.total_profit = 475

\* the scenario's store with an order of 1500: one driver (last day 5
\* hours), one route {5 km, Low, 30 min}, one order of 1500 on it
ScenarioStore1500 ==
  /\ Len(drivers) = 1 /\ drivers[1].past_week_hours[7] = 5
  /\ routes = { [route_id |-> 1, distance |-> 50, traffic_level |-> "Low", base_time |-> 30] }
  /\ Len(orders) = 1 /\ orders[1].value_rs = 1500 /\ orders[1].route_id = 1

\* C11: in the scenario with an order of 1500 every run with
\* available_drivers = 1 returns total_profit 1625 (1500 - 25 + 150), with
\* the order on time.
C11_Scenario1500 ==
  (ScenarioStore1500 /\ result # NoResult /\ RequestedDrivers = 1) =>
    /\ Returned
    /\ result.value.total_profit = 1625
    /\ result.value.on_time_deliveries = 1
    /\ result.value.late_deliveries = 0

C11_Witness ==
  /\ ScenarioStore1500
  /\ Returned
  /\ result.value.simulation_params.available_drivers = 1
  /\ result.value.total_profit = 1625

\* the accumulators after the loop has gone through the first k fetched
\* orders of the run whose outcome `result` holds
AccumulatorsAfter(k) ==
  ProcessOrders(SubSeq(fetched.orders, 1, k), 1, InitialAccumulators,
                RouteMapOf(fetched.routes), fetched.drivers,
                DriverFatigueOf(fetched.drivers), picks)

\* C12: each processed order on a route of distance d adds 5 * d to the
\* base fuel total, and 2 * d to the surcharge total when the route is High
\* and 0 when it is Low or Medium; the totals are the sums over the
\* processed orders, one term per order, and the reported base_cost and
\* surcharge are these sums rounded.
C12_FuelPerOrder ==
  Returned =>
    LET n == Len(fetched.orders)
        base == [i \in RoutedIndices |-> 5 * RouteOfOrder(i).distance]
        extra == [i \in RoutedIndices |->
                    IF RouteOfOrder(i).traffic_level = "High"
                    THEN 2 * RouteOfOrder(i).distance ELSE 0]
    IN  /\ \A i \in RoutedIndices :
             /\ AccumulatorsAfter(i).totalFuelCost
                  = AccumulatorsAfter(i - 1).totalFuelCost + base[i]
             /\ AccumulatorsAfter(i).totalSurcharge
                  = AccumulatorsAfter(i - 1).totalSurcharge + extra[i]
        /\ AccumulatorsAfter(n).totalFuelCost = SumOver(RoutedIndices, base)
        /\ AccumulatorsAfter(n).totalSurcharge = SumOver(RoutedIndices, extra)
        /\ 10 * result.value.fuel_cost_breakdown.base_cost - 5
             <= SumOver(RoutedIndices, base)
        /\ SumOver(RoutedIndices, base)
             < 10 * result.value.fuel_cost_breakdown.base_cost + 5
        /\ 10 * result.value.fuel_cost_breakdown.surcharge - 5
             <= SumOver(RoutedIndices, extra)
        /\ SumOver(RoutedIndices, extra)
             < 10 * result.value.fuel_cost_breakdown.surcharge + 5

\* two orders on the same High route and one on a Medium route
C12_Witness ==
  /\ Returned
  /\ \E i, j \in RoutedIndices :
       /\ i # j
       /\ RouteOfOrder(i) = RouteOfOrder(j)
       /\ RouteOfOrder(i).traffic_level = "High"
  /\ \E k \in RoutedIndices : RouteOfOrder(k).traffic_level = "Medium"
  /\ result.value.fuel_cost_breakdown.surcharge > 0

\* what the i-th order added to the profit beyond its value minus fuel,
\* the penalty of a late order added back; in tenths of a rupee
BonusAdded(i) ==
  LET before == AccumulatorsAfter(i - 1)
      after == AccumulatorsAfter(i)
      net == 10 * fetched.orders[i].value_rs
             - 5 * RouteOfOrder(i).distance
             - (IF RouteOfOrder(i).traffic_level = "High"
                THEN 2 * RouteOfOrder(i).distance ELSE 0)
  IN  (after.totalProfit - before.totalProfit) - net
      + (IF after.lateDeliveries > before.lateDeliveries THEN 500 ELSE 0)

\* C13: an order gets the bonus of 10% of its value exactly when it is on
\* time and its value_rs exceeds 1000; an on-time order of exactly 1000 and
\* a late order of any value get none.
C13_BonusBoundary ==
  Returned =>
    \A i \in RoutedIndices :
      LET onTime == AccumulatorsAfter(i).onTimeDeliveries
                      > AccumulatorsAfter(i - 1).onTimeDeliveries
          late == AccumulatorsAfter(i).lateDeliveries
                      > AccumulatorsAfter(i - 1).lateDeliveries
      IN  /\ onTime = DeliveredOnTime(i)
          /\ late = ~DeliveredOnTime(i)
          /\ BonusAdded(i) = IF onTime /\ fetched.orders[i].value_rs > 1000
                             THEN fetched.orders[i].value_rs
                             ELSE 0

\* an on-time order of exactly 1000, an on-time order above 1000 and a late
\* order above 1000 in one run
C13_Witness ==
  /\ Returned
  /\ \E i \in RoutedIndices :
       DeliveredOnTime(i) /\ fetched.orders[i].value_rs = 1000
  /\ \E i \in RoutedIndices :
       DeliveredOnTime(i) /\ fetched.orders[i].value_rs > 1000
  /\ \E i \in RoutedIndices :
       ~DeliveredOnTime(i) /\ fetched.orders[i].value_rs > 1000

\* the drivers the run selected include a fatigued and a rested one
MixedSelection ==
  /\ \E i \in 1..Len(fetched.drivers) : fetched.drivers[i].past_week_hours[7] > 8
  /\ \E i \in 1..Len(fetched.drivers) : fetched.drivers[i].past_week_hours[7] <= 8

\* C19: the engine is not deterministic.  Whenever the selected drivers
\* include a fatigued and a rested one and a processed order is on a route
\* with base_time >= 24, another run over the same drivers, routes, orders
\* and params (other random picks) returns different on_time_deliveries,
\* late_deliveries, efficiency_score and total_profit.
C19_NotDeterministic ==
  ( /\ Returned
    /\ MixedSelection
    /\ \E i \in RoutedIndices : RouteOfOrder(i).base_time >= 24 )
  => \E rnd \in RandomPicks(fetched.drivers, fetched.routes, fetched.orders) :
       LET other == Simulate(result.value.simulation_params, fetched.drivers,
                             fetched.routes, fetched.orders, rnd,
                             result.value.timestamp)
       IN  /\ other.kind = "ok"
           /\ other.value.on_time_deliveries # result.value.on_time_deliveries
           /\ other.value.late_deliveries # result.value.late_deliveries
           /\ other.value.efficiency_score # result.value.efficiency_score
           /\ other.value.total_profit # result.value.total_profit

\* a run over a fatigued and a rested driver with one order on a 24-minute
\* route, delivered late
C19_Witness ==
  /\ Returned
  /\ MixedSelection
  /\ Cardinality(RoutedIndices) = 1
  /\ \E i \in RoutedIndices : RouteOfOrder(i).base_time = 24
  /\ result.value.late_deliveries = 1

\* well-formed values of the three inputs other than the ones the run had
T2359 == <<"2", "3", ":", "5", "9">>
OtherSettings ==
  { [start_time |-> T2359, max_hours_per_day |-> 1],
    [start_time |-> <<"9", ":", "0", "0">>, max_hours_per_day |-> MaxHoursPerDayLimit] }
OtherDeliveryTimes == { <<"0", ":", "0", "0">>, T2359 }

\* the orders os with delivery_time of the i-th replaced by f[i]
WithDeliveryTimes(os, f) ==
  [i \in DOMAIN os |-> [os[i] EXCEPT !.delivery_time = f[i]]]

\* C20: start_time, max_hours_per_day and the orders' delivery_time do not
\* influence the KPIs.  The run repeated with the same drivers, routes,
\* available_drivers and picks, and other well-formed values of these three
\* inputs, returns the same profit, score, counts and fuel breakdown, and
\* its simulation_params are the params it was given.
C20_UnusedInputs ==
  Returned =>
    /\ \A t \in OtherDeliveryTimes : MatchesTimeRegex(t)
    /\ \A x \in OtherSettings :
         /\ MatchesTimeRegex(x.start_time)
         /\ x.start_time # result.value.simulation_params.start_time
              \/ x.max_hours_per_day # result.value.simulation_params.max_hours_per_day
    /\ \A x \in OtherSettings :
       \A f \in [1..Len(fetched.orders) -> OtherDeliveryTimes] :
         LET params == [available_drivers |->
                          result.value.simulation_params.available_drivers,
                        start_time |-> x.start_time,
                        max_hours_per_day |-> x.max_hours_per_day]
             other == Simulate(params, fetched.drivers, fetched.routes,
                               WithDeliveryTimes(fetched.orders, f), picks,
                               result.value.timestamp)
         IN  /\ other.kind = "ok"
             /\ Kpis(other.value) = Kpis(result.value)
             /\ other.value.simulation_params = params

\* a run with an on-time order and an order counted late although its
\* delivery_time, in minutes, is beyond the time the delivery took
C20_Witness ==
  /\ Returned
  /\ result.value.on_time_deliveries >= 1
  /\ \E i \in RoutedIndices :
       /\ ~DeliveredOnTime(i)
       /\ 7 * timeToMinutes(fetched.orders[i].delivery_time)
            > 10 * RouteOfOrder(i).base_time

\* ------------------------------------------------ POST /api/simulation/run
T900 == <<"9", ":", "0", "0">>
T2500 == <<"2", "5", ":", "0", "0">>
T0960 == <<"0", "9", ":", "6", "0">>
T2400 == <<"2", "4", ":", "0", "0">>
T095 == <<"0", "9", ":", "5">>

\* request bodies: integers around the validators' limits, times as characters
AvailableDriversInputs == 0..(MaxDrivers + 1)
StartTimeInputs == { T0900, T900, T2500, T0960, T2400, T095 }
MaxHoursInputs == { 0, 8, MaxHoursPerDayLimit + 1 }

Bodies ==
  [available_drivers : AvailableDriversInputs,
   start_time : StartTimeInputs,
   max_hours_per_day : MaxHoursInputs]

\* express-validator isInt({ min, max }) on an integer value
IsIntMin(v, min) == v >= min
IsIntMinMax(v, min, max) == v >= min /\ v <= max

\* validateSimulation: the fields whose validator fails
ValidationErrors(b) ==
  (IF IsIntMin(b.available_drivers, 1) THEN {} ELSE { "available_drivers" })
  \cup (IF MatchesTimeRegex(b.start_time) THEN {} ELSE { "start_time" })
  \cup (IF IsIntMinMax(b.max_hours_per_day, 1, MaxHoursPerDayLimit) THEN {}
        ELSE { "max_hours_per_day" })

ValidationFailed(errors) ==
  [status |-> 400, message |-> "Validation failed", errors |-> errors]

\* `Only ${driverCount} drivers available, but ${available_drivers} requested`
NotEnoughDrivers(count, requested) ==
  [status |-> 400, message |-> "Only drivers available",
   count |-> count, requested |-> requested]

SimulationFailed == [status |-> 500, message |-> "Simulation failed"]

Ok200(doc) == [status |-> 200, json |-> doc]

\* the test fixture's routes (route 1 Low 5 km 30 min, route 2 High 8 km 45 min);
\* the orders are the fixture's two, or one order whose route is missing
TestRoutes ==
  { r \in RoutePool : r.traffic_level = "Low" \/ r.base_time = 45 }

\* a roster with the fatigued driver first, and its first k drivers
TestRoster == <<DriverPool[3], DriverPool[1], DriverPool[2]>>
TestDriverStores == { FindLimit(TestRoster, k) : k \in 0..MaxDrivers }

\* the record of an earlier run, made at time 0 when no order was stored
EarlierResult ==
  KpiRecord(InitialAccumulators,
            [available_drivers |-> 1, start_time |-> T0900, max_hours_per_day |-> 8],
            0)

Init ==
  /\ drivers \in TestDriverStores
  /\ routes = TestRoutes
  /\ orders \in { <<OrderPool[1], OrderPool[2]>>, <<OrderPool[5]>> }
  /\ history \in { <<>>, <<EarlierResult>> }
  /\ clock = Len(history)
  /\ pc = "idle"
  /\ body = NoBody
  /\ driverCount = 0
  /\ fetched = NoFetch
  /\ result = NoResult
  /\ response = NoResponse
  /\ picks = <<>>
  /\ nreq = 0
  /\ OthersIdle

\* the request arrives; validateSimulation and the handler up to its first await
PostRunFrom(bodies) ==
  /\ pc \in { "idle", "done" }
  /\ nreq < MaxRequests
  /\ \E b \in bodies :
       LET errors == ValidationErrors(b) IN
       /\ body' = b
       /\ IF errors # {}
          THEN /\ response' = ValidationFailed(errors)
               /\ pc' = "done"
          ELSE /\ response' = NoResponse
               /\ pc' = "count"
  /\ nreq' = nreq + 1
  /\ driverCount' = 0
  /\ fetched' = NoFetch
  /\ result' = NoResult
  /\ picks' = <<>>
  /\ UNCHANGED <<otherVars, storeVars, history, clock>>

PostRun == PostRunFrom(Bodies)

\* variant: the comparison is off by one
TooManyRequestedOffByOne(available_drivers, count) == available_drivers > count + 1

\* available_drivers > driverCount
TooManyRequested(available_drivers, count) == available_drivers > count

\* await Driver.countDocuments() returns; the enough-drivers check
CountDocuments ==
  /\ pc = "count"
  /\ driverCount' = Len(drivers)
  /\ IF TooManyRequested(body.available_drivers, Len(drivers))
     THEN /\ response' = NotEnoughDrivers(Len(drivers), body.available_drivers)
          /\ pc' = "done"
     ELSE /\ response' = response
          /\ pc' = "findDrivers"
  /\ UNCHANGED <<otherVars, storeVars, history, clock, body, fetched, result, picks, nreq>>

\* await Driver.find().limit(available_drivers) returns
FindDrivers ==
  /\ pc = "findDrivers"
  /\ fetched' = [fetched EXCEPT !.drivers = FindLimit(drivers, body.available_drivers)]
  /\ pc' = "findRoutes"
  /\ UNCHANGED <<otherVars, storeVars, history, clock, body, driverCount, result, response,
                 picks, nreq>>

\* variant: the engine prunes the routes no stored order refers to after
\* reading them (Route.deleteMany)
FindRoutesDropsUnused ==
  /\ pc = "findRoutes"
  /\ fetched' = [fetched EXCEPT !.routes = routes]
  /\ routes' = { r \in routes : \E i \in 1..Len(orders) : orders[i].route_id = r.route_id }
  /\ pc' = "findOrders"
  /\ UNCHANGED <<otherVars, drivers, orders, history, clock, body, driverCount, result,
                 response, picks, nreq>>

\* await Route.find() returns
FindRoutes ==
  /\ pc = "findRoutes"
  /\ fetched' = [fetched EXCEPT !.routes = routes]
  /\ pc' = "findOrders"
  /\ UNCHANGED <<otherVars, storeVars, history, clock, body, driverCount, result, response,
                 picks, nreq>>

\* await Order.find() returns; the engine runs to its return or throw, and
\* the handler goes on to new SimulationResult(result) and calls save()
FindOrders ==
  /\ pc = "findOrders"
  /\ fetched' = [fetched EXCEPT !.orders = orders]
  /\ \E rnd \in RandomPicks(fetched.drivers, fetched.routes, orders) :
       /\ picks' = rnd
       /\ result' = Simulate(body, fetched.drivers, fetched.routes, orders, rnd, clock)
  /\ IF result'.kind = "threw"
     THEN /\ response' = SimulationFailed
          /\ pc' = "done"
          /\ clock' = clock
     ELSE /\ response' = response
          /\ pc' = "save"
          /\ clock' = clock + 1
  /\ UNCHANGED <<otherVars, storeVars, history, body, driverCount, nreq>>

\* variant: the result is answered but the document is never saved
SaveAnswersWithoutPersisting ==
  /\ pc = "save"
  /\ response' = Ok200(result.value)
  /\ pc' = "done"
  /\ UNCHANGED <<otherVars, storeVars, history, clock, body, driverCount, fetched, result,
                 picks, nreq>>

\* variant: the saved document replaces the collection's latest one
\* instead of being inserted
SaveReplacesLatest ==
  /\ pc = "save"
  /\ IF SchemaAccepts(result.value)
     THEN /\ history' = SubSeq(history, 1, Len(history) - 1) \o <<result.value>>
          /\ response' = Ok200(result.value)
     ELSE /\ history' = history
          /\ response' = SimulationFailed
  /\ pc' = "done"
  /\ UNCHANGED <<otherVars, storeVars, clock, body, driverCount, fetched, result, picks, nreq>>

\* await simulationResult.save() returns; res.json(result)
Save ==
  /\ pc = "save"
  /\ IF SchemaAccepts(result.value)
     THEN /\ history' = Append(history, result.value)
          /\ response' = Ok200(result.value)
     ELSE /\ history' = history
          /\ response' = SimulationFailed
  /\ pc' = "done"
  /\ UNCHANGED <<otherVars, storeVars, clock, body, driverCount, fetched, result, picks, nreq>>

\* variant: the catch block logs the error and returns without answering
StoreFailsUnanswered ==
  /\ pc \in { "count", "findDrivers", "findRoutes", "findOrders", "save" }
  /\ pc' = "failed"
  /\ UNCHANGED <<otherVars, storeVars, history, clock, body, driverCount, fetched, result,
                 response, picks, nreq>>

\* a store call of the handler rejects; the catch block answers 500
StoreFails ==
  /\ pc \in { "count", "findDrivers", "findRoutes", "findOrders", "save" }
  /\ response' = SimulationFailed
  /\ pc' = "done"
  /\ UNCHANGED <<otherVars, storeVars, history, clock, body, driverCount, fetched, result,
                 picks, nreq>>

\* DELETE /api/drivers/:id by another client: Driver.findByIdAndDelete
DeleteDriver ==
  /\ \E i \in 1..Len(drivers) :
       drivers' = SubSeq(drivers, 1, i - 1) \o SubSeq(drivers, i + 1, Len(drivers))
  /\ UNCHANGED <<otherVars, routes, orders, history, clock, pc, body, driverCount, fetched,
                 result, response, picks, nreq>>

Next ==
  \/ PostRun
  \/ CountDocuments
  \/ FindDrivers
  \/ FindRoutes
  \/ FindOrders
  \/ Save
  \/ StoreFails
  \/ DeleteDriver

Spec == Init /\ [][Next]_vars


\* ------------------------------------------- properties of POST /run
\* the step in which a request arrives
Arrives == pc \in { "idle", "done" } /\ nreq' = nreq + 1

\* the step in which the request in flight is answered
Responds == pc # "done" /\ pc' = "done"

\* C6: when the driver count returns and available_drivers exceeds the
\* number of stored drivers, the request is answered 400 with a message
\* naming that number; the engine has not run and does not run, and the
\* history is unchanged.
C6_TooManyDriversRejected ==
  [][ ( /\ pc = "count" /\ pc' # "count"
        /\ response' # SimulationFailed
        /\ body.available_drivers > Len(drivers) )
      => /\ response' = [status |-> 400, message |-> "Only drivers available",
                         count |-> Len(drivers),
                         requested |-> body.available_drivers]
         /\ pc' = "done"
         /\ result' = NoResult
         /\ fetched' = NoFetch
         /\ history' = history ]_vars

\* a request for more drivers than the non-empty roster holds, rejected
\* after an earlier run was saved
C6_Witness ==
  /\ pc = "done"
  /\ response.status = 400
  /\ response.message = "Only drivers available"
  /\ response.count >= 1
  /\ response.requested > response.count
  /\ Len(history) = 1

\* a two-digit hour 00-23, a colon, a two-digit minute 00-59
StrictHHMM(s) ==
  /\ Len(s) = 5
  /\ s[3] = ":"
  /\ { s[1], s[2], s[4], s[5] } \subseteq Digits
  /\ 10 * DigitVal(s[1]) + DigitVal(s[2]) <= 23
  /\ 10 * DigitVal(s[4]) + DigitVal(s[5]) <= 59

RejectedAtValidation ==
  /\ response'.status = 400
  /\ response'.message = "Validation failed"
  /\ response'.errors # {}
  /\ pc' = "done"
  /\ driverCount' = 0
  /\ fetched' = NoFetch
  /\ result' = NoResult
  /\ history' = history

\* C7: a request with available_drivers < 1, a start_time that is not a
\* well-formed HH:MM time, or max_hours_per_day outside 1..24 is answered
\* 400 'Validation failed' with field errors; the driver count and the
\* engine do not run and no record is created.
C7_InvalidParamsRejected ==
  [][ ( /\ Arrives
        /\ \/ body'.available_drivers < 1
           \/ ~StrictHHMM(body'.start_time)
           \/ body'.max_hours_per_day < 1
           \/ body'.max_hours_per_day > 24 )
      => RejectedAtValidation ]_vars

\* an hour of one or two digits with value 0..23, a colon, a two-digit
\* minute 00-59
HourMinute(s) ==
  /\ Len(s) \in { 4, 5 }
  /\ s[Len(s) - 2] = ":"
  /\ \A i \in (1..Len(s)) \ { Len(s) - 2 } : s[i] \in Digits
  /\ NumberOf(SubSeq(s, 1, Len(s) - 3)) <= 23
  /\ NumberOf(SubSeq(s, Len(s) - 1, Len(s))) <= 59

\* what the validators do reject: as C7 with the hour's leading zero
\* optional, and the errors naming exactly the failing fields
InvalidParamsRejectedLenient ==
  [][ Arrives =>
      LET bad == (IF body'.available_drivers < 1 THEN { "available_drivers" } ELSE {})
                 \cup (IF HourMinute(body'.start_time) THEN {} ELSE { "start_time" })
                 \cup (IF body'.max_hours_per_day < 1 \/ body'.max_hours_per_day > 24
                       THEN { "max_hours_per_day" } ELSE {})
      IN  IF bad # {}
          THEN RejectedAtValidation /\ response'.errors = bad
          ELSE pc' = "count" /\ response' = NoResponse ]_vars

\* C8: the history grows, by exactly the answered KPI record, in the step
\* that answers 200 and in no other step; a step that answers anything else
\* answers 400 or 500 without KPI fields and leaves the history unchanged.
C8_RecordIffOk ==
  [][ /\ history' # history =>
           /\ Responds
           /\ response'.status = 200
           /\ history' = Append(history, response'.json)
      /\ (Responds /\ response'.status = 200) =>
           /\ history' = Append(history, response'.json)
           /\ response'.json = result.value
           /\ result.kind = "ok"
      /\ (Responds /\ response'.status # 200) =>
           /\ history' = history
           /\ response'.status \in { 400, 500 }
           /\ "json" \notin DOMAIN response' ]_vars

\* the engine threw (a driver was deleted after the count) and the request
\* was answered 500, after an earlier run was saved
C8_Witness ==
  /\ pc = "done"
  /\ response.status = 500
  /\ result.kind = "threw"
  /\ Len(history) = 1

\* the step in which the request in flight finds fewer drivers than it
\* asked for: at the count, or in the engine after Driver.find().limit
FindsTooFewDrivers ==
  \/ /\ pc = "count" /\ pc' # "count"
     /\ response' # SimulationFailed
     /\ body.available_drivers > Len(drivers)
  \/ /\ pc = "findOrders"
     /\ result'.kind = "threw"

\* C17: under every interleaving with driver deletions, a request that
\* finds fewer drivers than available_drivers is answered 400 and rejected,
\* and no result is produced or saved.
C17_TooFewDriversIsClientError ==
  [][ FindsTooFewDrivers =>
        /\ response'.status = 400
        /\ pc' = "done"
        /\ result'.kind # "ok"
        /\ history' = history ]_vars


\* ------------------------------------------ GET /api/simulation/history
MaxHistory == 2
DefaultLimit == 10
DefaultPage == 1

\* req.query: the parameters given, as the characters of their values
Queries ==
  { [given |-> g,
     limit |-> IF "limit" \in g THEN l ELSE <<>>,
     page |-> IF "page" \in g THEN p ELSE <<>>] :
      g \in SUBSET { "limit", "page" },
      l \in { <<"1">>, <<"2">> },
      p \in { <<"1">>, <<"2">>, <<"3">> } }

\* const { limit = 10, page = 1 } = req.query, as the numbers that
\* parseInt(limit), page - 1, total / limit and page > 1 make of them
LimitOf(q) == IF "limit" \in q.given THEN NumberOf(q.limit) ELSE DefaultLimit
PageOf(q) == IF "page" \in q.given THEN NumberOf(q.page) ELSE DefaultPage

\* variant: the first page skips a page, page * limit
SkipOfPageTimesLimit(q) == PageOf(q) * LimitOf(q)

\* const skip = (page - 1) * limit
SkipOf(q) == (PageOf(q) - 1) * LimitOf(q)

\* Math.ceil(a / b) for integers a >= 0, b >= 1
MathCeilDiv(a, b) == (a + b - 1) \div b

\* the orders in which .sort({ timestamp: -1 }) can return a collection
SortNewestFirst(collection) ==
  { [i \in 1..Len(collection) |-> collection[f[i]]] :
      f \in { g \in [1..Len(collection) -> 1..Len(collection)] :
                /\ IsInjective(g)
                /\ \A i, j \in 1..Len(collection) :
                     i < j => collection[g[i]].timestamp >= collection[g[j]].timestamp } }

\* .limit(n).skip(k) on a sorted cursor: the k first documents dropped, then
\* at most n kept
SkipLimit(sorted, k, n) == SubSeq(sorted, k + 1, Min(k + n, Len(sorted)))

HistoryListing(docs, q, total) ==
  [status |-> 200,
   results |-> docs,
   pagination |->
     [current_page |-> PageOf(q),
      total_pages |-> MathCeilDiv(total, LimitOf(q)),
      total_results |-> total,
      has_next |-> SkipOf(q) + Len(docs) < total,
      has_prev |-> PageOf(q) > 1]]

HistoryFailed ==
  [status |-> 500, message |-> "Server error while fetching simulation history"]

\* records of earlier runs, made at times 0 .. n - 1
EarlierResults(n) == [t \in 1..n |-> [EarlierResult EXCEPT !.timestamp = t - 1]]

\* the one request body of the runs that add to the history
HistoryBodies ==
  { [available_drivers |-> 1, start_time |-> T0900, max_hours_per_day |-> 8] }

InitHistory ==
  /\ drivers = <<DriverPool[1]>>
  /\ routes = TestRoutes
  /\ orders = <<OrderPool[1], OrderPool[2]>>
  /\ \E n \in 0..MaxHistory : history \in SortNewestFirst(EarlierResults(n))
                                 \cup { EarlierResults(n) }
  /\ clock = Len(history)
  /\ pc = "idle"
  /\ body = NoBody
  /\ driverCount = 0
  /\ fetched = NoFetch
  /\ result = NoResult
  /\ response = NoResponse
  /\ picks = <<>>
  /\ nreq = 0
  /\ OthersIdle

\* the request arrives; the handler up to its first await
GetHistory ==
  /\ historyPc \in { "idle", "done" }
  /\ \E q \in Queries : query' = q
  /\ historyPc' = "find"
  /\ found' = NoFound
  /\ listing' = NoResponse
  /\ UNCHANGED <<storeVars, history, clock, pc, body, driverCount, fetched,
                 result, response, picks, nreq, runs, crud, laterVars>>

\* await SimulationResult.find().sort().limit().skip() returns
HistoryFind ==
  /\ historyPc = "find"
  /\ \E sorted \in SortNewestFirst(history) :
       found' = [docs |-> SkipLimit(sorted, SkipOf(query), LimitOf(query)),
                 read |-> history]
  /\ historyPc' = "count"
  /\ UNCHANGED <<storeVars, history, clock, pc, body, driverCount, fetched,
                 result, response, picks, nreq, query, listing, runs, crud, laterVars>>

\* await SimulationResult.countDocuments() returns; res.json
HistoryCount ==
  /\ historyPc = "count"
  /\ listing' = HistoryListing(found.docs, query, Len(history))
  /\ historyPc' = "done"
  /\ UNCHANGED <<storeVars, history, clock, pc, body, driverCount, fetched,
                 result, response, picks, nreq, query, found, runs, crud, laterVars>>

\* a store call of the handler rejects; the catch block answers 500
HistoryFails ==
  /\ historyPc \in { "find", "count" }
  /\ listing' = HistoryFailed
  /\ historyPc' = "done"
  /\ UNCHANGED <<storeVars, history, clock, pc, body, driverCount, fetched,
                 result, response, picks, nreq, query, found, runs, crud, laterVars>>

\* DELETE /api/simulation/history/:id: SimulationResult.findByIdAndDelete
DeleteHistory ==
  /\ \E i \in 1..Len(history) : history' = RemoveAt(history, i)
  /\ UNCHANGED <<storeVars, clock, pc, body, driverCount, fetched, result,
                 response, picks, nreq, historyVars, runs, crud, laterVars>>

NextHistory ==
  \/ PostRunFrom(HistoryBodies)
  \/ CountDocuments
  \/ FindDrivers
  \/ FindRoutes
  \/ FindOrders
  \/ Save
  \/ GetHistory
  \/ HistoryFind
  \/ HistoryCount
  \/ HistoryFails
  \/ DeleteHistory

SpecHistory == InitHistory /\ [][NextHistory]_vars


\* ------------------------------------ properties of the history routes
RECURSIVE NewestFirst(_)
\* the records of h from the latest timestamp to the earliest
NewestFirst(h) ==
  IF Len(h) = 0 THEN <<>>
  ELSE LET i == CHOOSE k \in 1..Len(h) :
                  \A j \in 1..Len(h) : h[k].timestamp >= h[j].timestamp
       IN  <<h[i]>> \o NewestFirst(RemoveAt(h, i))

\* C14: a history request with limit L >= 1 and page P >= 1 (10 and 1 when
\* not given), answered over a history of T records that did not change
\* between its find and its count, returns the records at positions
\* (P-1)*L+1 .. min(P*L, T) of the history ordered newest first, with
\* current_page P, total_results T, total_pages ceil(T/L), has_next exactly
\* when P*L < T and has_prev exactly when P > 1.
C14_HistoryPage ==
  [][ ( /\ historyPc = "count"
        /\ listing'.status = 200
        /\ found.read = history )
      => LET L == IF "limit" \in query.given THEN NumberOf(query.limit) ELSE 10
             P == IF "page" \in query.given THEN NumberOf(query.page) ELSE 1
             T == Len(history)
             last == IF P * L < T THEN P * L ELSE T
         IN  /\ L >= 1 /\ P >= 1
             /\ listing'.results = SubSeq(NewestFirst(history), (P - 1) * L + 1, last)
             /\ listing'.pagination.current_page = P
             /\ listing'.pagination.total_results = T
             /\ (listing'.pagination.total_pages - 1) * L < T
             /\ T <= listing'.pagination.total_pages * L
             /\ listing'.pagination.has_next = (P * L < T)
             /\ listing'.pagination.has_prev = (P > 1)
             /\ history' = history ]_vars

\* page 2 of a three-record history, one record a page: the middle record,
\* with a page before and a page after
C14_Witness ==
  /\ historyPc = "done"
  /\ listing.status = 200
  /\ found.read = history
  /\ Len(history) = 3
  /\ query.given = { "limit", "page" }
  /\ NumberOf(query.limit) = 1 /\ NumberOf(query.page) = 2
  /\ Len(listing.results) = 1
  /\ listing.pagination.has_next /\ listing.pagination.has_prev
  /\ listing.pagination.total_pages = 3

\* the default limit and page, answered over a non-empty history
C14_WitnessDefaults ==
  /\ historyPc = "done"
  /\ listing.status = 200
  /\ query.given = {}
  /\ Len(listing.results) = 3
  /\ listing.pagination.total_pages = 1
  /\ ~listing.pagination.has_next /\ ~listing.pagination.has_prev

\* C15 as stated: the history is append-only and its records immutable;
\* every record in the history is still there, with the same field values,
\* after any step.
C15_AppendOnly ==
  [][ \A i \in 1..Len(history) :
        \E j \in 1..Len(history') : history'[j] = history[i] ]_vars

\* C15: no operation changes the fields of a stored record, and POST /run
\* only appends.  A step that changes the history either appends the record
\* the run answers with, or is a DELETE /history/:id that removes one
\* record; every other record stays, with its values, in the same order.
C15_ImmutableUntilDeleted ==
  [][ history' # history =>
        \/ /\ pc = "save" /\ pc' = "done"
           /\ response'.status = 200
           /\ history' = Append(history, response'.json)
        \/ /\ \E i \in 1..Len(history) : history' = RemoveAt(history, i)
           /\ UNCHANGED <<pc, response, result, historyVars>> ]_vars

\* a run was answered 200 and its record appended to a history from which
\* the earliest record had been deleted
C15_Witness ==
  /\ pc = "done"
  /\ response.status = 200
  /\ Len(history) = 2
  /\ history[2] = response.json
  /\ history[1] = EarlierResults(2)[2]


\* ------------------------------------- POST /run requests side by side
MaxConcurrent == 2

\* request bodies of the concurrent runs: two drivers are stored, so a
\* request for three is turned away at the count
ConcurrentBodies ==
  { [available_drivers |-> n, start_time |-> T0900, max_hours_per_day |-> 8] :
      n \in { 2, 3 } }

\* a request's locals when it arrives with body b
ArrivedRun(b) ==
  [pc |-> IF ValidationErrors(b) # {} THEN "done" ELSE "count",
   body |-> b,
   driverCount |-> 0,
   fetched |-> NoFetch,
   result |-> NoResult,
   picks |-> <<>>,
   response |-> IF ValidationErrors(b) # {}
                THEN ValidationFailed(ValidationErrors(b)) ELSE NoResponse]

InitConcurrent ==
  /\ drivers = FindLimit(TestRoster, 2)
  /\ routes = TestRoutes
  /\ orders = <<OrderPool[1], OrderPool[2]>>
  /\ history = <<>>
  /\ clock = 0
  /\ pc = "idle"
  /\ body = NoBody
  /\ driverCount = 0
  /\ fetched = NoFetch
  /\ result = NoResult
  /\ response = NoResponse
  /\ picks = <<>>
  /\ nreq = 0
  /\ OthersIdle

singleRunVars == <<pc, body, driverCount, fetched, result, response, picks, nreq>>

\* a request arrives while others are in flight
RunArrives ==
  /\ Len(runs) < MaxConcurrent
  /\ \E b \in ConcurrentBodies : runs' = Append(runs, ArrivedRun(b))
  /\ UNCHANGED <<storeVars, history, clock, singleRunVars, historyVars, crud, laterVars>>

\* request r: await Driver.countDocuments() returns
RunCount(r) ==
  /\ runs[r].pc = "count"
  /\ runs' = [runs EXCEPT
       ![r] = IF TooManyRequested(runs[r].body.available_drivers, Len(drivers))
              THEN [runs[r] EXCEPT
                      !.driverCount = Len(drivers),
                      !.response = NotEnoughDrivers(Len(drivers),
                                                    runs[r].body.available_drivers),
                      !.pc = "done"]
              ELSE [runs[r] EXCEPT !.driverCount = Len(drivers),
                                   !.pc = "findDrivers"]]
  /\ UNCHANGED <<storeVars, history, clock, singleRunVars, historyVars, crud, laterVars>>

\* request r: await Driver.find().limit(available_drivers) returns
RunFindDrivers(r) ==
  /\ runs[r].pc = "findDrivers"
  /\ runs' = [runs EXCEPT
       ![r] = [runs[r] EXCEPT
                 !.fetched.drivers = FindLimit(drivers, runs[r].body.available_drivers),
                 !.pc = "findRoutes"]]
  /\ UNCHANGED <<storeVars, history, clock, singleRunVars, historyVars, crud, laterVars>>

\* request r: await Route.find() returns
RunFindRoutes(r) ==
  /\ runs[r].pc = "findRoutes"
  /\ runs' = [runs EXCEPT ![r] = [runs[r] EXCEPT !.fetched.routes = routes,
                                                 !.pc = "findOrders"]]
  /\ UNCHANGED <<storeVars, history, clock, singleRunVars, historyVars, crud, laterVars>>

\* request r: await Order.find() returns and the engine runs to its end;
\* new Date() reads the time, which may have moved on since the last reading
RunFindOrders(r) ==
  /\ runs[r].pc = "findOrders"
  /\ \E now \in { clock, clock + 1 } :
     \E rnd \in RandomPicks(runs[r].fetched.drivers, runs[r].fetched.routes, orders) :
       LET outcome == Simulate(runs[r].body, runs[r].fetched.drivers,
                               runs[r].fetched.routes, orders, rnd, now)
       IN  /\ clock' = now
           /\ runs' = [runs EXCEPT
                ![r] = [runs[r] EXCEPT
                          !.fetched.orders = orders,
                          !.picks = rnd,
                          !.result = outcome,
                          !.response = IF outcome.kind = "threw"
                                       THEN SimulationFailed ELSE NoResponse,
                          !.pc = IF outcome.kind = "threw" THEN "done" ELSE "save"]]
  /\ UNCHANGED <<storeVars, history, singleRunVars, historyVars, crud, laterVars>>

\* variant: save() is an upsert on the record's fields, so a record equal
\* to a stored one is not inserted again
RunSaveUpserts(r) ==
  /\ runs[r].pc = "save"
  /\ history' = IF \E i \in 1..Len(history) : history[i] = runs[r].result.value
                THEN history
                ELSE Append(history, runs[r].result.value)
  /\ runs' = [runs EXCEPT ![r] = [runs[r] EXCEPT
                                    !.response = Ok200(runs[r].result.value),
                                    !.pc = "done"]]
  /\ UNCHANGED <<storeVars, clock, singleRunVars, historyVars, crud, laterVars>>

\* request r: await simulationResult.save() returns; res.json(result)
RunSave(r) ==
  /\ runs[r].pc = "save"
  /\ IF SchemaAccepts(runs[r].result.value)
     THEN /\ history' = Append(history, runs[r].result.value)
          /\ runs' = [runs EXCEPT ![r] = [runs[r] EXCEPT
                                            !.response = Ok200(runs[r].result.value),
                                            !.pc = "done"]]
     ELSE /\ history' = history
          /\ runs' = [runs EXCEPT ![r] = [runs[r] EXCEPT
                                            !.response = SimulationFailed,
                                            !.pc = "done"]]
  /\ UNCHANGED <<storeVars, clock, singleRunVars, historyVars, crud, laterVars>>

\* each step taken by some request in flight
SomeRunCount == \E r \in DOMAIN runs : RunCount(r)
SomeRunFindDrivers == \E r \in DOMAIN runs : RunFindDrivers(r)
SomeRunFindRoutes == \E r \in DOMAIN runs : RunFindRoutes(r)
SomeRunFindOrders == \E r \in DOMAIN runs : RunFindOrders(r)
SomeRunSave == \E r \in DOMAIN runs : RunSave(r)

NextConcurrent ==
  \/ RunArrives
  \/ SomeRunCount
  \/ SomeRunFindDrivers
  \/ SomeRunFindRoutes
  \/ SomeRunFindOrders
  \/ SomeRunSave

SpecConcurrent == InitConcurrent /\ [][NextConcurrent]_vars


\* ------------------------------------ properties of concurrent runs
\* the responses a request with body b can get when it runs alone against
\* the store, at some time up to now
AloneResponses(b) ==
  IF ValidationErrors(b) # {} THEN { ValidationFailed(ValidationErrors(b)) }
  ELSE IF b.available_drivers > Len(drivers)
  THEN { NotEnoughDrivers(Len(drivers), b.available_drivers) }
  ELSE LET ds == SubSeq(drivers, 1, b.available_drivers) IN
       { Ok200(Simulate(b, ds, routes, orders, rnd, t).value) :
           rnd \in RandomPicks(ds, routes, orders), t \in 0..clock }

\* the requests answered 200
AnsweredOk == { r \in DOMAIN runs : runs[r].pc = "done" /\ runs[r].response.status = 200 }

\* C16: concurrent POST /run requests over an unchanging store are
\* independent.  Under every interleaving each completed request has a
\* response it could have got running alone, and the history holds exactly
\* one record per request answered 200, the record of its response: none
\* lost, merged or duplicated, and none for a rejected request.
C16_ConcurrentRunsIndependent ==
  /\ \A r \in DOMAIN runs :
       runs[r].pc = "done" => runs[r].response \in AloneResponses(runs[r].body)
  /\ Len(history) = Cardinality(AnsweredOk)
  /\ \A r \in AnsweredOk :
       Cardinality({ i \in 1..Len(history) : history[i] = runs[r].response.json })
         = Cardinality({ q \in AnsweredOk : runs[q].response.json = runs[r].response.json })
  /\ \A i \in 1..Len(history) :
       \E r \in AnsweredOk : runs[r].response.json = history[i]

\* two requests both answered 200, the later one saved first, with
\* different random picks and different results
C16_Witness ==
  /\ Len(runs) >= 2
  /\ AnsweredOk = DOMAIN runs
  /\ Len(history) = Len(runs)
  /\ history[1] = runs[2].response.json
  /\ history[2] = runs[1].response.json
  /\ runs[1].picks # runs[2].picks
  /\ Kpis(history[1]) # Kpis(history[2])

\* two requests answered 200 with equal records (same picks, same
\* millisecond), both stored
C16_WitnessEqualRecords ==
  /\ Len(runs) >= 2
  /\ AnsweredOk = DOMAIN runs
  /\ runs[1].response = runs[2].response
  /\ Len(history) = Len(runs)


\* ------------------------------------ /api/routes and /api/orders CRUD
\* request bodies around the validators' limits; each request is taken as
\* one step, from its validation to its response
RouteBodies ==
  [route_id : { 0, 1, 2 }, distance : { 50 }, traffic_level : { "Low", "High" },
   base_time : { 0, 30 }]

OrderBodies ==
  [order_id : { 0, 1, 2 }, value_rs : { 500 }, route_id : { 1, 2 },
   delivery_time : { T0900, T2500 }]

\* validateRoute: isInt({ min: 1 }), isFloat({ min: 0.1 }), isIn([...])
RouteValidationErrors(b) ==
  (IF IsIntMin(b.route_id, 1) THEN {} ELSE { "route_id" })
  \cup (IF b.distance >= 1 THEN {} ELSE { "distance" })
  \cup (IF b.traffic_level \in { "Low", "Medium", "High" } THEN {}
        ELSE { "traffic_level" })
  \cup (IF IsIntMin(b.base_time, 1) THEN {} ELSE { "base_time" })

\* validateOrder: isInt({ min: 1 }) three times and the time pattern
OrderValidationErrors(b) ==
  (IF IsIntMin(b.order_id, 1) THEN {} ELSE { "order_id" })
  \cup (IF IsIntMin(b.value_rs, 1) THEN {} ELSE { "value_rs" })
  \cup (IF IsIntMin(b.route_id, 1) THEN {} ELSE { "route_id" })
  \cup (IF MatchesTimeRegex(b.delivery_time) THEN {} ELSE { "delivery_time" })

Answered(status, message) == [pc |-> "done", status |-> status, message |-> message]

InitCrud ==
  /\ drivers = <<>>
  /\ routes = {}
  /\ orders = <<>>
  /\ history = <<>>
  /\ clock = 0
  /\ pc = "idle"
  /\ body = NoBody
  /\ driverCount = 0
  /\ fetched = NoFetch
  /\ result = NoResult
  /\ response = NoResponse
  /\ picks = <<>>
  /\ nreq = 0
  /\ OthersIdle

crudFrame == <<drivers, history, clock, singleRunVars, historyVars, runs, laterVars>>

\* POST /api/routes
CreateRoute ==
  /\ \E b \in RouteBodies :
       IF RouteValidationErrors(b) # {}
       THEN /\ crud' = Answered(400, "Validation failed")
            /\ routes' = routes
       ELSE IF \E r \in routes : r.route_id = b.route_id
       THEN /\ crud' = Answered(400, "Route ID already exists")
            /\ routes' = routes
       ELSE /\ crud' = Answered(201, "route")
            /\ routes' = routes \cup { b }
  /\ UNCHANGED <<orders, crudFrame>>

\* PUT /api/routes/:id, the id that of a stored route
UpdateRoute ==
  /\ \E target \in routes : \E b \in RouteBodies :
       IF RouteValidationErrors(b) # {}
       THEN /\ crud' = Answered(400, "Validation failed")
            /\ routes' = routes
       ELSE IF \E r \in routes \ { target } : r.route_id = b.route_id
       THEN /\ crud' = Answered(400, "Route ID already exists")
            /\ routes' = routes
       ELSE /\ crud' = Answered(200, "route")
            /\ routes' = (routes \ { target }) \cup { b }
  /\ UNCHANGED <<orders, crudFrame>>

\* DELETE /api/routes/:id, the id that of a stored route
DeleteRoute ==
  /\ \E target \in routes : routes' = routes \ { target }
  /\ crud' = Answered(200, "Route deleted successfully")
  /\ UNCHANGED <<orders, crudFrame>>

\* POST /api/orders
CreateOrder ==
  /\ Len(orders) < MaxOrders
  /\ \E b \in OrderBodies :
       IF OrderValidationErrors(b) # {}
       THEN /\ crud' = Answered(400, "Validation failed")
            /\ orders' = orders
       ELSE IF \E i \in 1..Len(orders) : orders[i].order_id = b.order_id
       THEN /\ crud' = Answered(400, "Order ID already exists")
            /\ orders' = orders
       ELSE IF ~\E r \in routes : r.route_id = b.route_id
       THEN /\ crud' = Answered(400, "Route does not exist")
            /\ orders' = orders
       ELSE /\ crud' = Answered(201, "order")
            /\ orders' = Append(orders, b)
  /\ UNCHANGED <<routes, crudFrame>>

\* PUT /api/orders/:id, the id that of a stored order
UpdateOrder ==
  /\ \E target \in 1..Len(orders) : \E b \in OrderBodies :
       IF OrderValidationErrors(b) # {}
       THEN /\ crud' = Answered(400, "Validation failed")
            /\ orders' = orders
       ELSE IF \E i \in (1..Len(orders)) \ { target } : orders[i].order_id = b.order_id
       THEN /\ crud' = Answered(400, "Order ID already exists")
            /\ orders' = orders
       ELSE IF ~\E r \in routes : r.route_id = b.route_id
       THEN /\ crud' = Answered(400, "Route does not exist")
            /\ orders' = orders
       ELSE /\ crud' = Answered(200, "order")
            /\ orders' = [orders EXCEPT ![target] = b]
  /\ UNCHANGED <<routes, crudFrame>>

\* DELETE /api/orders/:id, the id that of a stored order
DeleteOrder ==
  /\ \E target \in 1..Len(orders) : orders' = RemoveAt(orders, target)
  /\ crud' = Answered(200, "Order deleted successfully")
  /\ UNCHANGED <<routes, crudFrame>>

NextCrud ==
  \/ CreateRoute
  \/ UpdateRoute
  \/ DeleteRoute
  \/ CreateOrder
  \/ UpdateOrder
  \/ DeleteOrder

SpecCrud == InitCrud /\ [][NextCrud]_vars

\* C18: after any sequence of route and order create, update and delete
\* requests, every stored order's route_id is the route_id of a stored route.
C18_OrdersReferenceRoutes ==
  \A i \in 1..Len(orders) : \E r \in routes : r.route_id = orders[i].route_id


\* --------------------------------- further properties of the engine
\* driver d with shift_hours s and the first six entries of
\* past_week_hours all h; the last entry is kept
WithOtherHours(d, h, s) ==
  [d EXCEPT !.shift_hours = s,
            !.past_week_hours = [i \in 1..7 |-> IF i = 7 THEN d.past_week_hours[7] ELSE h]]

\* C23: a driver's multiplier is 0.7 when the last entry of past_week_hours
\* is above 8 and 1.0 when it is 8 or less; the other six entries and
\* shift_hours change no KPI: the run repeated with the same picks over
\* drivers that differ only in those returns the same KPIs.
C23_FatigueFromLastEntry ==
  Returned =>
    /\ \A i \in 1..Len(fetched.drivers) :
         DriverFatigueOf(fetched.drivers)[fetched.drivers[i]._id]
           = IF fetched.drivers[i].past_week_hours[7] > 8 THEN 7 ELSE 10
    /\ \A h \in { 0, 24 } : \A s \in { 1, 24 } :
         LET ds == [i \in 1..Len(fetched.drivers) |->
                      WithOtherHours(fetched.drivers[i], h, s)]
             other == Simulate(result.value.simulation_params, ds, fetched.routes,
                               fetched.orders, picks, result.value.timestamp)
         IN  /\ \A i \in 1..Len(ds) : ValidDriver(ds[i])
             /\ other.kind = "ok"
             /\ Kpis(other.value) = Kpis(result.value)

\* a run in which a driver at exactly 8 hours on the last day, with earlier
\* days above 8, delivered on a 45-minute route on time and a driver at 9
\* hours delivered late
C23_Witness ==
  /\ Returned
  /\ \E i \in RoutedIndices :
       /\ DriverOfOrder(i).past_week_hours[7] = 8
       /\ \E k \in 1..6 : DriverOfOrder(i).past_week_hours[k] > 8
       /\ RouteOfOrder(i).base_time = 45
  /\ \E i \in RoutedIndices : DriverOfOrder(i).past_week_hours[7] = 9
  /\ result.value.late_deliveries = 1

\* the i-th order was counted late by the loop
CountedLate(i) ==
  AccumulatorsAfter(i).lateDeliveries > AccumulatorsAfter(i - 1).lateDeliveries

\* C24: an order given a fatigued driver is late exactly when its route's
\* base_time is 24 or more (3 * base_time > 70) and on time when it is 23
\* or less; when every selected driver is fatigued, late_deliveries is the
\* number of processed orders on routes with base_time >= 24.
C24_FatigueThreshold ==
  Returned =>
    /\ \A i \in RoutedIndices :
         DriverOfOrder(i).past_week_hours[7] > 8 =>
           /\ CountedLate(i) = (RouteOfOrder(i).base_time >= 24)
           /\ CountedLate(i) = (3 * RouteOfOrder(i).base_time > 70)
    /\ (\A k \in 1..Len(fetched.drivers) : fetched.drivers[k].past_week_hours[7] > 8)
         => result.value.late_deliveries
              = Cardinality({ i \in RoutedIndices : RouteOfOrder(i).base_time >= 24 })

\* every selected driver fatigued, an order on a 23-minute route on time and
\* an order on a 24-minute route late
C24_Witness ==
  /\ Returned
  /\ Len(fetched.drivers) >= 1
  /\ \A k \in 1..Len(fetched.drivers) : fetched.drivers[k].past_week_hours[7] > 8
  /\ \E i \in RoutedIndices : RouteOfOrder(i).base_time = 23 /\ ~CountedLate(i)
  /\ \E i \in RoutedIndices : RouteOfOrder(i).base_time = 24 /\ CountedLate(i)
  /\ result.value.late_deliveries = 1


\* ------------------------------------- further properties of POST /run
\* a step of the request handler: the arrival or one of its continuations
RunStep == nreq' # nreq \/ pc' # pc

\* C21: no step of a run creates, changes or deletes a driver, a route or
\* an order, whatever the outcome; the history changes only in steps of a
\* run, and only by the one record the answered 200 carries being appended.
C21_RunWritesOnlyItsRecord ==
  [][ /\ RunStep => UNCHANGED storeVars
      /\ history' # history =>
           /\ RunStep
           /\ pc = "save" /\ pc' = "done"
           /\ response' = Ok200(result.value)
           /\ history' = Append(history, result.value) ]_vars

\* a run answered 200 over a store that still holds two drivers, its two
\* routes and two orders, with its record added after the earlier one
C21_Witness ==
  /\ pc = "done"
  /\ response.status = 200
  /\ Len(history) = 2
  /\ history[2] = result.value
  /\ Len(drivers) = 2
  /\ routes = TestRoutes
  /\ Len(orders) = 2


\* ------------------------- POST /run: every request is answered once
\* request bodies: one failing validation, two the two stored drivers can
\* serve, one asking for more drivers than are stored
AnsweredBodies ==
  { [available_drivers |-> n, start_time |-> T0900, max_hours_per_day |-> 8] :
      n \in { 0, 1, 2, 3 } }

PostRunAnswered == PostRunFrom(AnsweredBodies)

\* the store call the request awaits settles: it returns or it rejects
Settles ==
  \/ CountDocuments
  \/ FindDrivers
  \/ FindRoutes
  \/ FindOrders
  \/ Save
  \/ StoreFails

NextAnswered ==
  \/ PostRunAnswered
  \/ CountDocuments
  \/ FindDrivers
  \/ FindRoutes
  \/ FindOrders
  \/ Save
  \/ StoreFails
  \/ DeleteDriver

\* requests one after another over a store of two drivers, two routes and
\* two orders, with other clients deleting drivers; every store call the
\* handler awaits eventually returns or rejects
SpecAnswered ==
  /\ InitConcurrent
  /\ [][NextAnswered]_vars
  /\ WF_vars(Settles)

\* the request in flight has no response yet
Pending == nreq > 0 /\ response = NoResponse

\* the request has its response: 200 with the KPIs, 400 or 500
Answered200Or400Or500 ==
  /\ pc = "done"
  /\ \/ result.kind = "ok" /\ response = Ok200(result.value)
     \/ response.status \in { 400, 500 }

\* C22: every request, once the store calls it awaits return or fail, is
\* eventually answered 200 with the KPIs, 400 or 500; an answered request
\* takes no further step and its response is not replaced, whatever other
\* requests do to the store meanwhile.
C22_AnsweredExactlyOnce ==
  /\ Pending ~> Answered200Or400Or500
  /\ [][ (nreq > 0 /\ ~Pending /\ nreq' = nreq)
           => /\ Answered200Or400Or500
              /\ UNCHANGED <<pc, response, result, history>> ]_vars

\* a request answered 500 after a store call failed once its engine had
\* returned, while another client had deleted a driver
C22_Witness ==
  /\ Answered200Or400Or500
  /\ response = SimulationFailed
  /\ result.kind = "ok"
  /\ Len(drivers) < Len(fetched.drivers)


\* ------------------------------- what the random picks can change
\* orders whose bonus is a whole number of rupees (1500), is not (1005,
\* bonus 100.5) or is none (500), and one on a route that is not stored
PicksOrderPool ==
  << [order_id |-> 1, value_rs |-> 1005, route_id |-> 2, delivery_time |-> <<"1", "0", ":", "0", "0">>],
     [order_id |-> 2, value_rs |-> 500,  route_id |-> 1, delivery_time |-> <<"1", "0", ":", "3", "0">>],
     [order_id |-> 3, value_rs |-> 1500, route_id |-> 2, delivery_time |-> <<"1", "1", ":", "0", "0">>],
     [order_id |-> 4, value_rs |-> 1500, route_id |-> 3, delivery_time |-> <<"1", "1", ":", "3", "0">>] >>

\* two stored drivers, two stored routes, up to MaxOrders orders
InitPicks ==
  /\ drivers \in { ds \in DriverStores : Len(ds) = 2 }
  /\ routes \in { rs \in RouteStores : Cardinality(rs) = 2 }
  /\ orders \in { os \in Selections(PicksOrderPool, MaxOrders) :
                    \A i \in 1..Len(os) : ValidOrder(os[i]) }
  /\ history = <<>>
  /\ clock = 0
  /\ pc = "idle"
  /\ body = NoBody
  /\ driverCount = 0
  /\ fetched = NoFetch
  /\ result = NoResult
  /\ response = NoResponse
  /\ picks = <<>>
  /\ nreq = 0
  /\ OthersIdle

NextPicks == RunDeliverySimulation

SpecPicks == InitPicks /\ [][NextPicks]_vars

\* the run repeated over what it fetched with the picks rnd
RerunWithPicks(rnd) ==
  Simulate(result.value.simulation_params, fetched.drivers, fetched.routes,
           fetched.orders, rnd, result.value.timestamp)

\* totalProfit at the end of the loop under the picks rnd, before
\* Math.round; in tenths of a rupee
ProfitTenthsWith(rnd) ==
  ProcessOrders(fetched.orders, 1, InitialAccumulators, RouteMapOf(fetched.routes),
                fetched.drivers, DriverFatigueOf(fetched.drivers), rnd).totalProfit

\* the i-th order is on time under the picks rnd
OnTimeWith(rnd, i) ==
  LET d == fetched.drivers[rnd[Cardinality({ j \in RoutedIndices : j <= i })] + 1]
  IN  d.past_week_hours[7] > 8
        => 10 * RouteOfOrder(i).base_time <= 7 * (RouteOfOrder(i).base_time + 10)

\* 50 plus the bonus the i-th order has when on time, in tenths of a rupee
LateCostTenths(i) ==
  500 + (IF fetched.orders[i].value_rs > 1000 THEN fetched.orders[i].value_rs ELSE 0)

\* what the claim says the picks rnd change in the profit against the
\* run's own picks: -50 minus the forfeited bonus for each order that turns
\* from on time to late, and the reverse for each that turns back
ClaimedProfitChangeTenths(rnd) ==
  LET change == [i \in RoutedIndices |->
                   IF OnTimeWith(picks, i) /\ ~OnTimeWith(rnd, i) THEN 0 - LateCostTenths(i)
                   ELSE IF ~OnTimeWith(picks, i) /\ OnTimeWith(rnd, i) THEN LateCostTenths(i)
                   ELSE 0]
  IN  SumOver(RoutedIndices, change)

\* the fields the picks cannot change
PicksLeaveFuelAndCount(other) ==
  /\ other.kind = "ok"
  /\ other.value.fuel_cost_breakdown = result.value.fuel_cost_breakdown
  /\ other.value.on_time_deliveries + other.value.late_deliveries
       = result.value.on_time_deliveries + result.value.late_deliveries
  /\ other.value.simulation_params = result.value.simulation_params

StoredRoute(id, b) ==
  [_id |-> id, route_id |-> b.route_id, distance |-> b.distance,
   traffic_level |-> b.traffic_level, base_time |-> b.base_time]

StoredOrder(id, b) ==
  [_id |-> id, order_id |-> b.order_id, value_rs |-> b.value_rs,
   route_id |-> b.route_id, delivery_time |-> b.delivery_time]

\* req.body of the route requests: route_id 0 fails validateRoute, 2 is
\* stored, 3 is free
SideRouteBodies ==
  [route_id : { 0, 2, 3 }, distance : { 50 }, traffic_level : { "Low" },
   base_time : { 30 }]

\* req.body of the order requests: order_id 1 is stored, 2 is free; route 4
\* is not stored
SideOrderBodies ==
  [order_id : { 1, 2 }, value_rs : { 500 }, route_id : { 1, 4 },
   delivery_time : { T0900 }]

\* req.params.id of the PUT requests: a stored document's and no document's
SideTargets == { 1, 9 }

\* the _id the store gives the document request r inserts
NewId(r) == 10 + r

\* a request as it stands after its validation, before its first await
ArrivedRequest(kind, id, b) ==
  LET errors == IF kind \in { "POST route", "PUT route" }
                THEN RouteValidationErrors(b) ELSE OrderValidationErrors(b)
  IN  [kind |-> kind, id |-> id, doc |-> b,
       pc |-> IF errors # {} THEN "done" ELSE "findOne",
       status |-> IF errors # {} THEN 400 ELSE 0,
       message |-> IF errors # {} THEN "Validation failed" ELSE ""]

InitSide ==
  /\ drivers = <<>>
  /\ routes = { StoredRoute(1, [route_id |-> 1, distance |-> 50, traffic_level |-> "Low",
                                base_time |-> 30]),
                StoredRoute(2, [route_id |-> 2, distance |-> 80, traffic_level |-> "High",
                                base_time |-> 45]) }
  /\ orders = << StoredOrder(1, [order_id |-> 1, value_rs |-> 500, route_id |-> 1,
                                 delivery_time |-> T0900]) >>
  /\ history = <<>>
  /\ clock = 0
  /\ pc = "idle"
  /\ body = NoBody
  /\ driverCount = 0
  /\ fetched = NoFetch
  /\ result = NoResult
  /\ response = NoResponse
  /\ picks = <<>>
  /\ nreq = 0
  /\ OthersIdle

sideFrame == <<drivers, history, clock, singleRunVars, historyVars, runs, crud,
               snapshots, clientVars>>

\* a POST or PUT request for a route or an order arrives while others are
\* in flight
RequestArrives ==
  /\ Len(reqs) < MaxConcurrent
  /\ \/ \E b \in SideRouteBodies :
          reqs' = Append(reqs, ArrivedRequest("POST route", 0, b))
     \/ \E b \in SideRouteBodies : \E id \in SideTargets :
          reqs' = Append(reqs, ArrivedRequest("PUT route", id, b))
     \/ \E b \in SideOrderBodies :
          reqs' = Append(reqs, ArrivedRequest("POST order", 0, b))
     \/ \E b \in SideOrderBodies : \E id \in SideTargets :
          reqs' = Append(reqs, ArrivedRequest("PUT order", id, b))
  /\ UNCHANGED <<routes, orders, sideFrame>>

\* a stored document other than the request's own has the request's
\* route_id (order_id)
KeyTaken(q) ==
  IF q.kind \in { "POST route", "PUT route" }
  THEN \E d \in routes : d.route_id = q.doc.route_id /\ d._id # q.id
  ELSE \E i \in 1..Len(orders) :
         orders[i].order_id = q.doc.order_id /\ orders[i]._id # q.id

\* the request is answered with status and message
Finished(q, status, message) ==
  [q EXCEPT !.pc = "done", !.status = status, !.message = message]

\* request r: await Route.findOne({ route_id }) / Order.findOne({ order_id })
\* returns, for PUT with _id: { $ne: req.params.id }
FindOneReturns(r) ==
  /\ reqs[r].pc = "findOne"
  /\ reqs' = [reqs EXCEPT ![r] =
       IF KeyTaken(reqs[r])
       THEN Finished(reqs[r], 400, "ID already exists")
       ELSE [reqs[r] EXCEPT !.pc = IF reqs[r].kind \in { "POST route", "PUT route" }
                                   THEN "save" ELSE "findRoute"]]
  /\ UNCHANGED <<routes, orders, sideFrame>>

\* order request r: await Route.findOne({ route_id }) returns
FindRouteReturns(r) ==
  /\ reqs[r].pc = "findRoute"
  /\ reqs' = [reqs EXCEPT ![r] =
       IF \E d \in routes : d.route_id = reqs[r].doc.route_id
       THEN [reqs[r] EXCEPT !.pc = "save"]
       ELSE Finished(reqs[r], 400, "Route does not exist")]
  /\ UNCHANGED <<routes, orders, sideFrame>>

\* the position of the stored order with _id id, 0 when there is none
OrderAt(id) ==
  IF \E i \in 1..Len(orders) : orders[i]._id = id
  THEN CHOOSE i \in 1..Len(orders) : orders[i]._id = id
  ELSE 0

\* variant: the collections have no unique index, so save() and
\* findByIdAndUpdate() write whatever they are given
SaveReturnsWithoutIndex(r) ==
  LET q == reqs[r] IN
  /\ q.pc = "save"
  /\ CASE q.kind = "POST route" ->
            /\ routes' = routes \cup { StoredRoute(NewId(r), q.doc) }
            /\ orders' = orders
            /\ reqs' = [reqs EXCEPT ![r] = Finished(q, 201, "route")]
       [] q.kind = "PUT route" ->
            IF ~\E d \in routes : d._id = q.id
            THEN /\ UNCHANGED <<routes, orders>>
                 /\ reqs' = [reqs EXCEPT ![r] = Finished(q, 404, "Route not found")]
            ELSE /\ routes' = { d \in routes : d._id # q.id }
                                \cup { StoredRoute(q.id, q.doc) }
                 /\ orders' = orders
                 /\ reqs' = [reqs EXCEPT ![r] = Finished(q, 200, "route")]
       [] q.kind = "POST order" ->
            /\ orders' = Append(orders, StoredOrder(NewId(r), q.doc))
            /\ routes' = routes
            /\ reqs' = [reqs EXCEPT ![r] = Finished(q, 201, "order")]
       [] q.kind = "PUT order" ->
            IF OrderAt(q.id) = 0
            THEN /\ UNCHANGED <<routes, orders>>
                 /\ reqs' = [reqs EXCEPT ![r] = Finished(q, 404, "Order not found")]
            ELSE /\ orders' = [orders EXCEPT ![OrderAt(q.id)] = StoredOrder(q.id, q.doc)]
                 /\ routes' = routes
                 /\ reqs' = [reqs EXCEPT ![r] = Finished(q, 200, "order")]
  /\ UNCHANGED sideFrame

\* request r: await save() (POST) or findByIdAndUpdate() (PUT) returns or
\* rejects.  The unique index on route_id (order_id) rejects a write that
\* would store a second document with the key; that error is not a
\* ValidationError, so the catch block answers 500.
SaveReturns(r) ==
  LET q == reqs[r] IN
  /\ q.pc = "save"
  /\ CASE q.kind = "POST route" ->
            IF KeyTaken(q)
            THEN /\ UNCHANGED <<routes, orders>>
                 /\ reqs' = [reqs EXCEPT ![r] = Finished(q, 500, "Server error")]
            ELSE /\ routes' = routes \cup { StoredRoute(NewId(r), q.doc) }
                 /\ orders' = orders
                 /\ reqs' = [reqs EXCEPT ![r] = Finished(q, 201, "route")]
       [] q.kind = "PUT route" ->
            IF ~\E d \in routes : d._id = q.id
            THEN /\ UNCHANGED <<routes, orders>>
                 /\ reqs' = [reqs EXCEPT ![r] = Finished(q, 404, "Route not found")]
            ELSE IF KeyTaken(q)
            THEN /\ UNCHANGED <<routes, orders>>
                 /\ reqs' = [reqs EXCEPT ![r] = Finished(q, 500, "Server error")]
            ELSE /\ routes' = { d \in routes : d._id # q.id }
                                \cup { StoredRoute(q.id, q.doc) }
                 /\ orders' = orders
                 /\ reqs' = [reqs EXCEPT ![r] = Finished(q, 200, "route")]
       [] q.kind = "POST order" ->
            IF KeyTaken(q)
            THEN /\ UNCHANGED <<routes, orders>>
                 /\ reqs' = [reqs EXCEPT ![r] = Finished(q, 500, "Server error")]
            ELSE /\ orders' = Append(orders, StoredOrder(NewId(r), q.doc))
                 /\ routes' = routes
                 /\ reqs' = [reqs EXCEPT ![r] = Finished(q, 201, "order")]
       [] q.kind = "PUT order" ->
            IF OrderAt(q.id) = 0
            THEN /\ UNCHANGED <<routes, orders>>
                 /\ reqs' = [reqs EXCEPT ![r] = Finished(q, 404, "Order not found")]
            ELSE IF KeyTaken(q)
            THEN /\ UNCHANGED <<routes, orders>>
                 /\ reqs' = [reqs EXCEPT ![r] = Finished(q, 500, "Server error")]
            ELSE /\ orders' = [orders EXCEPT ![OrderAt(q.id)] = StoredOrder(q.id, q.doc)]
                 /\ routes' = routes
                 /\ reqs' = [reqs EXCEPT ![r] = Finished(q, 200, "order")]
  /\ UNCHANGED sideFrame

SomeFindOneReturns == \E r \in DOMAIN reqs : FindOneReturns(r)
SomeFindRouteReturns == \E r \in DOMAIN reqs : FindRouteReturns(r)
SomeSaveReturns == \E r \in DOMAIN reqs : SaveReturns(r)

NextSide ==
  \/ RequestArrives
  \/ SomeFindOneReturns
  \/ SomeFindRouteReturns
  \/ SomeSaveReturns

SpecSide == InitSide /\ [][NextSide]_vars

\* the request's target is stored (PUT), or it has none (POST)
TargetStored(q) ==
  CASE q.kind = "PUT route" -> \E d \in routes : d._id = q.id
    [] q.kind = "PUT order" -> OrderAt(q.id) # 0
    [] OTHER -> TRUE

\* writing the request's document would store a second document with its
\* route_id (order_id)
WouldDuplicate(q) == KeyTaken(q) /\ TargetStored(q)

UniqueRouteIds == \A d1, d2 \in routes : d1.route_id = d2.route_id => d1 = d2

UniqueOrderIds ==
  \A i, j \in 1..Len(orders) : orders[i].order_id = orders[j].order_id => i = j

\* C25: whatever the interleaving of route and order create and update
\* requests, no two stored routes share a route_id and no two stored
\* orders share an order_id; a request that is answered when writing its
\* document would store a second one with its route_id (order_id) is
\* rejected with 400 or 500 and the step leaves the routes and the orders
\* unchanged.
C25_UniqueIds ==
  /\ [](UniqueRouteIds /\ UniqueOrderIds)
  /\ [][ \A r \in DOMAIN reqs :
           ( /\ reqs[r].pc \in { "findOne", "save" }
             /\ reqs'[r].pc = "done"
             /\ WouldDuplicate(reqs[r]) )
           => /\ reqs'[r].status \in { 400, 500 }
              /\ UNCHANGED <<routes, orders>> ]_vars

\* two POST /api/routes for route_id 3 that both found no route with it:
\* the first save stored the route, the second was rejected by the index;
\* one route with route_id 3 is stored
C25_Witness ==
  /\ Len(reqs) = 2
  /\ reqs[1].kind = "POST route" /\ reqs[2].kind = "POST route"
  /\ reqs[1].doc.route_id = 3 /\ reqs[2].doc.route_id = 3
  /\ reqs[1].status = 201
  /\ reqs[2].status = 500
  /\ Cardinality({ d \in routes : d.route_id = 3 }) = 1

\* an update that renumbers order 1 to 2 and a create of order 2 that
\* both passed their checks: the create was stored, the update rejected
C25_WitnessOrders ==
  /\ Len(reqs) = 2
  /\ reqs[1].kind = "PUT order" /\ reqs[1].id = 1 /\ reqs[1].doc.order_id = 2
  /\ reqs[2].kind = "POST order" /\ reqs[2].doc.order_id = 2
  /\ reqs[1].status = 500
  /\ reqs[2].status = 201
  /\ Len(orders) = 2


\* ----------------------------------------- driver create and update
\* past_week_hours of the request bodies: two valid weeks, six and eight
\* entries, an entry above 24, an entry below 0, and no entry
WeekInputs ==
  { <<8, 8, 8, 8, 8, 6, 5>>, <<0, 24, 8, 8, 9, 7, 9>>,
    <<8, 8, 8, 8, 8, 6>>, <<8, 8, 8, 8, 8, 6, 5, 9>>,
    <<8, 8, 8, 8, 8, 6, 25>>, <<8, 8, 8, 8, 8, 6, 0 - 1>>, <<>> }

ShiftInputs == { 0, 1, 24, 25 }

DriverBodies == [shift_hours : ShiftInputs, past_week_hours : WeekInputs]

\* validateDriver: shift_hours isInt 1..24, past_week_hours isArray of
\* exactly 7, every entry isInt 0..24
DriverValidationErrors(b) ==
  (IF IsIntMinMax(b.shift_hours, 1, HoursInDay) THEN {} ELSE { "shift_hours" })
  \cup (IF Len(b.past_week_hours) = WeekLength THEN {} ELSE { "past_week_hours" })
  \cup (IF \A i \in 1..Len(b.past_week_hours) :
             IsIntMinMax(b.past_week_hours[i], 0, HoursInDay)
        THEN {} ELSE { "past_week_hours.*" })

\* the _id the store gives a new driver: one no stored driver has
NewDriverId ==
  CHOOSE id \in 1..(Len(drivers) + 1) :
    /\ \A i \in 1..Len(drivers) : drivers[i]._id # id
    /\ \A smaller \in 1..(id - 1) : \E i \in 1..Len(drivers) : drivers[i]._id = smaller

StoredDriver(id, b) ==
  [_id |-> id, shift_hours |-> b.shift_hours, past_week_hours |-> b.past_week_hours]

InitDrivers ==
  /\ drivers \in TestDriverStores
  /\ routes = TestRoutes
  /\ orders = <<>>
  /\ history = <<>>
  /\ clock = 0
  /\ pc = "idle"
  /\ body = NoBody
  /\ driverCount = 0
  /\ fetched = NoFetch
  /\ result = NoResult
  /\ response = NoResponse
  /\ picks = <<>>
  /\ nreq = 0
  /\ OthersIdle

driversFrame == <<routes, orders, history, clock, pc, driverCount, fetched, result,
                  response, picks, nreq, historyVars, runs, laterVars>>

\* POST /api/drivers: validateDriver, then new Driver(...).save(), whose
\* schema validation failure is answered 400 by the catch block
CreateDriver ==
  /\ Len(drivers) < MaxDrivers
  /\ \E b \in DriverBodies :
       /\ body' = b
       /\ IF DriverValidationErrors(b) # {}
          THEN /\ crud' = Answered(400, "Validation failed")
               /\ drivers' = drivers
          ELSE IF ~ValidDriver(StoredDriver(NewDriverId, b))
          THEN /\ crud' = Answered(400, "Validation error")
               /\ drivers' = drivers
          ELSE /\ crud' = Answered(201, "driver")
               /\ drivers' = Append(drivers, StoredDriver(NewDriverId, b))
  /\ UNCHANGED driversFrame

\* variant: the update is written as given, with neither validateDriver
\* nor runValidators
UpdateDriverUnchecked ==
  /\ \E target \in 1..Len(drivers) : \E b \in DriverBodies :
       /\ body' = b
       /\ crud' = Answered(200, "driver")
       /\ drivers' = [drivers EXCEPT ![target] = StoredDriver(drivers[target]._id, b)]
  /\ UNCHANGED driversFrame

\* PUT /api/drivers/:id, the id that of a stored driver: validateDriver,
\* then findByIdAndUpdate with runValidators
UpdateDriver ==
  /\ \E target \in 1..Len(drivers) : \E b \in DriverBodies :
       /\ body' = b
       /\ IF DriverValidationErrors(b) # {}
          THEN /\ crud' = Answered(400, "Validation failed")
               /\ drivers' = drivers
          ELSE IF ~ValidDriver(StoredDriver(drivers[target]._id, b))
          THEN /\ crud' = Answered(400, "Validation error")
               /\ drivers' = drivers
          ELSE /\ crud' = Answered(200, "driver")
               /\ drivers' = [drivers EXCEPT
                                ![target] = StoredDriver(drivers[target]._id, b)]
  /\ UNCHANGED driversFrame

\* DELETE /api/drivers/:id, the id that of a stored driver
RemoveDriver ==
  /\ \E target \in 1..Len(drivers) : drivers' = RemoveAt(drivers, target)
  /\ crud' = Answered(200, "Driver deleted successfully")
  /\ body' = NoBody
  /\ UNCHANGED driversFrame

NextDrivers ==
  \/ CreateDriver
  \/ UpdateDriver
  \/ RemoveDriver

SpecDrivers == InitDrivers /\ [][NextDrivers]_vars

\* seven entries, each a whole number of hours between 0 and 24
WeekWellFormed(week) ==
  /\ Len(week) = 7
  /\ \A i \in 1..Len(week) : week[i] \in 0..24

\* C26: every stored driver has a past_week_hours of exactly 7 entries,
\* each between 0 and 24, so the engine's read of the last entry is
\* defined; a create or update whose past_week_hours is not of that form
\* is answered 400 and leaves the stored drivers unchanged, as does every
\* request answered 400.
C26_WeeksWellFormed ==
  /\ [](\A i \in 1..Len(drivers) :
          /\ WeekWellFormed(drivers[i].past_week_hours)
          /\ YesterdayHours(drivers[i]) \in 0..24)
  /\ [][ /\ (body' # NoBody /\ ~WeekWellFormed(body'.past_week_hours))
              => crud'.status = 400 /\ drivers' = drivers
         /\ crud'.status = 400 => drivers' = drivers ]_vars

\* a stored driver updated to a week with entries 0 and 24, and the
\* latest request, carrying a week of eight entries, rejected
C26_Witness ==
  /\ crud.pc = "done"
  /\ crud.status = 400
  /\ Len(body.past_week_hours) = 8
  /\ Len(drivers) = 2
  /\ drivers[1].past_week_hours = <<0, 24, 8, 8, 9, 7, 9>>
  /\ drivers[1]._id = 3
  /\ drivers[2].shift_hours = 24


\* ------------------------- a run while other clients change the store
\* the three collections as they stand together
StoreNow(ds, rs, os) == [drivers |-> ds, routes |-> rs, orders |-> os]

\* the stores that stood at some instant since the run in flight began:
\* while no run is in flight only the latest counts
Seen(ds, rs, os) ==
  IF pc \in { "count", "findDrivers", "findRoutes", "findOrders", "save" }
  THEN snapshots \cup { StoreNow(ds, rs, os) }
  ELSE { StoreNow(ds, rs, os) }

\* a fatigued driver stored before a rested one, two routes, no order yet
InitSnapshot ==
  /\ drivers = <<DriverPool[3], DriverPool[1]>>
  /\ routes = TestRoutes
  /\ orders = <<>>
  /\ history = <<>>
  /\ clock = 0
  /\ pc = "idle"
  /\ body = NoBody
  /\ driverCount = 0
  /\ fetched = NoFetch
  /\ result = NoResult
  /\ response = NoResponse
  /\ picks = <<>>
  /\ nreq = 0
  /\ historyPc = "idle"
  /\ query = NoQuery
  /\ found = NoFound
  /\ listing = NoResponse
  /\ runs = <<>>
  /\ crud = NoCrud
  /\ reqs = <<>>
  /\ snapshots = { StoreNow(drivers, routes, orders) }
  /\ local = NoLocal
  /\ calls = <<>>

otherClientFrame == <<history, clock, singleRunVars, historyVars, runs, crud, reqs,
                      clientVars>>

\* DELETE /api/drivers/:id by another client
OtherDeletesDriver ==
  /\ \E i \in 1..Len(drivers) : drivers' = RemoveAt(drivers, i)
  /\ snapshots' = Seen(drivers', routes, orders)
  /\ UNCHANGED <<routes, orders, otherClientFrame>>

\* the orders another client creates
OtherClientOrders == <<OrderPool[1], OrderPool[2]>>

\* POST /api/orders by another client, answered 201: the order_id is free
\* and the route is stored
OtherCreatesOrder ==
  /\ Len(orders) < MaxOrders
  /\ \E k \in 1..Len(OtherClientOrders) :
       /\ ValidOrder(OtherClientOrders[k])
       /\ \A i \in 1..Len(orders) : orders[i].order_id # OtherClientOrders[k].order_id
       /\ \E r \in routes : r.route_id = OtherClientOrders[k].route_id
       /\ orders' = Append(orders, OtherClientOrders[k])
  /\ snapshots' = Seen(drivers, routes, orders')
  /\ UNCHANGED <<drivers, routes, otherClientFrame>>

NextSnapshot ==
  \/ PostRunAnswered
  \/ CountDocuments
  \/ FindDrivers
  \/ FindRoutes
  \/ FindOrders
  \/ Save
  \/ OtherDeletesDriver
  \/ OtherCreatesOrder

SpecSnapshot == InitSnapshot /\ [][NextSnapshot]_vars

\* the engine run with the request's params over the store snap can return
\* the KPIs of the run's result
ComputableFrom(snap) ==
  LET ds == FindLimit(snap.drivers, body.available_drivers) IN
  \E rnd \in RandomPicks(ds, snap.routes, snap.orders) :
    LET outcome == Simulate(body, ds, snap.routes, snap.orders, rnd,
                            result.value.timestamp)
    IN  outcome.kind = "ok" /\ Kpis(outcome.value) = Kpis(result.value)

\* C27: when a run is answered 200, its KPIs are what the engine computes,
\* for some picks, from the drivers, routes and orders as they stood
\* together at one instant between the run's arrival and its response.
C27_SnapshotConsistent ==
  [][ (pc = "save" /\ pc' = "done" /\ response'.status = 200)
        => \E snap \in snapshots : ComputableFrom(snap) ]_vars


\* ------------------------------------ the DataProvider's client cache
\* the drivers the client sends: two the server accepts, one whose week
\* has six entries
ClientDriverBodies ==
  { [shift_hours |-> 8, past_week_hours |-> <<8, 8, 8, 8, 8, 6, 5>>],
    [shift_hours |-> 9, past_week_hours |-> <<6, 7, 8, 9, 10, 8, 9>>],
    [shift_hours |-> 8, past_week_hours |-> <<8, 8, 8, 8, 8, 6>>] }

\* params of runSimulation: one driver is enough, or three are asked for
ClientRunParams ==
  { [available_drivers |-> n, start_time |-> T0900, max_hours_per_day |-> 8] :
      n \in { 1, 3 } }

NoData == [status |-> 0]

\* a call of one of the provider's functions as it stands at its await:
\* the state its closure holds, its arguments, the request on its way
CallOf(fn, id, arg) ==
  [fn |-> fn, id |-> id, arg |-> arg, closure |-> local, pc |-> "sent", data |-> NoData]

\* the server's drivers are in the local list, one run is in the history,
\* the local simulationResults is still the initial []
InitClient ==
  /\ drivers = <<DriverPool[1]>>
  /\ routes = TestRoutes
  /\ orders = <<OrderPool[1]>>
  /\ history = EarlierResults(1)
  /\ clock = 1
  /\ pc = "idle"
  /\ body = NoBody
  /\ driverCount = 0
  /\ fetched = NoFetch
  /\ result = NoResult
  /\ response = NoResponse
  /\ picks = <<>>
  /\ nreq = 0
  /\ historyPc = "idle"
  /\ query = NoQuery
  /\ found = NoFound
  /\ listing = NoResponse
  /\ runs = <<>>
  /\ crud = NoCrud
  /\ reqs = <<>>
  /\ snapshots = {}
  /\ local = [drivers |-> drivers, simulationResults |-> JsArray(<<>>)]
  /\ calls = <<>>

clientFrame == <<routes, orders, singleRunVars, historyVars, runs, crud, reqs, snapshots>>

\* addDriver(driver) is called: api.post('/drivers', driver) is sent
AddDriverCalled ==
  /\ Len(calls) < MaxConcurrent
  /\ \E b \in ClientDriverBodies : calls' = Append(calls, CallOf("addDriver", 0, b))
  /\ UNCHANGED <<drivers, history, clock, local, clientFrame>>

\* updateDriver(id, driver) is called for a driver of the local list
UpdateDriverCalled ==
  /\ Len(calls) < MaxConcurrent
  /\ \E i \in 1..Len(local.drivers) : \E b \in ClientDriverBodies :
       calls' = Append(calls, CallOf("updateDriver", local.drivers[i]._id, b))
  /\ UNCHANGED <<drivers, history, clock, local, clientFrame>>

\* deleteDriver(id) is called for a driver of the local list
DeleteDriverCalled ==
  /\ Len(calls) < MaxConcurrent
  /\ \E i \in 1..Len(local.drivers) :
       calls' = Append(calls, CallOf("deleteDriver", local.drivers[i]._id, NoBody))
  /\ UNCHANGED <<drivers, history, clock, local, clientFrame>>

\* fetchSimulationResults() is called: api.get('/simulation/history')
FetchSimulationResultsCalled ==
  /\ Len(calls) < MaxConcurrent
  /\ calls' = Append(calls, CallOf("fetchSimulationResults", 0, NoBody))
  /\ UNCHANGED <<drivers, history, clock, local, clientFrame>>

\* runSimulation(params) is called: api.post('/simulation/run', params)
RunSimulationCalled ==
  /\ Len(calls) < MaxConcurrent
  /\ \E params \in ClientRunParams :
       calls' = Append(calls, CallOf("runSimulation", 0, params))
  /\ UNCHANGED <<drivers, history, clock, local, clientFrame>>

\* the position of the stored driver with _id id, 0 when there is none
DriverAt(ds, id) ==
  IF \E i \in 1..Len(ds) : ds[i]._id = id
  THEN CHOOSE i \in 1..Len(ds) : ds[i]._id = id
  ELSE 0

\* the call's request reached the server and its handler ran to its
\* response, which is on its way back
Answer(c, data) == calls' = [calls EXCEPT ![c] = [calls[c] EXCEPT !.pc = "answered",
                                                                   !.data = data]]

\* the server handles call c's POST /api/drivers
ServesPostDriver(c) ==
  /\ calls[c].pc = "sent" /\ calls[c].fn = "addDriver"
  /\ IF DriverValidationErrors(calls[c].arg) # {}
     THEN /\ Answer(c, [status |-> 400])
          /\ drivers' = drivers
     ELSE /\ Answer(c, [status |-> 201, json |-> StoredDriver(NewId(c), calls[c].arg)])
          /\ drivers' = Append(drivers, StoredDriver(NewId(c), calls[c].arg))
  /\ UNCHANGED <<history, clock, local, clientFrame>>

\* the server handles call c's PUT /api/drivers/:id
ServesPutDriver(c) ==
  /\ calls[c].pc = "sent" /\ calls[c].fn = "updateDriver"
  /\ IF DriverValidationErrors(calls[c].arg) # {}
     THEN /\ Answer(c, [status |-> 400])
          /\ drivers' = drivers
     ELSE IF DriverAt(drivers, calls[c].id) = 0
     THEN /\ Answer(c, [status |-> 404])
          /\ drivers' = drivers
     ELSE /\ Answer(c, [status |-> 200, json |-> StoredDriver(calls[c].id, calls[c].arg)])
          /\ drivers' = [drivers EXCEPT ![DriverAt(drivers, calls[c].id)] =
                           StoredDriver(calls[c].id, calls[c].arg)]
  /\ UNCHANGED <<history, clock, local, clientFrame>>

\* the server handles call c's DELETE /api/drivers/:id
ServesDeleteDriver(c) ==
  /\ calls[c].pc = "sent" /\ calls[c].fn = "deleteDriver"
  /\ IF DriverAt(drivers, calls[c].id) = 0
     THEN /\ Answer(c, [status |-> 404])
          /\ drivers' = drivers
     ELSE /\ Answer(c, [status |-> 200])
          /\ drivers' = RemoveAt(drivers, DriverAt(drivers, calls[c].id))
  /\ UNCHANGED <<history, clock, local, clientFrame>>

\* the server handles call c's GET /api/simulation/history, sent without
\* limit or page: the body is { results, pagination }
ServesGetHistory(c) ==
  /\ calls[c].pc = "sent" /\ calls[c].fn = "fetchSimulationResults"
  /\ \E sorted \in SortNewestFirst(history) :
       Answer(c, HistoryListing(SkipLimit(sorted, SkipOf(NoQuery), LimitOf(NoQuery)),
                                NoQuery, Len(history)))
  /\ UNCHANGED <<drivers, history, clock, local, clientFrame>>

\* the server handles call c's POST /api/simulation/run
ServesPostRun(c) ==
  /\ calls[c].pc = "sent" /\ calls[c].fn = "runSimulation"
  /\ IF TooManyRequested(calls[c].arg.available_drivers, Len(drivers))
     THEN /\ Answer(c, NotEnoughDrivers(Len(drivers), calls[c].arg.available_drivers))
          /\ UNCHANGED <<history, clock>>
     ELSE LET ds == FindLimit(drivers, calls[c].arg.available_drivers) IN
          \E rnd \in RandomPicks(ds, routes, orders) :
            LET outcome == Simulate(calls[c].arg, ds, routes, orders, rnd, clock) IN
            /\ Answer(c, Ok200(outcome.value))
            /\ history' = Append(history, outcome.value)
            /\ clock' = clock + 1
  /\ UNCHANGED <<drivers, local, clientFrame>>

\* the call ends: it returns, or it throws
Ends(c, how) == calls' = [calls EXCEPT ![c] = [calls[c] EXCEPT !.pc = how]]

\* drivers.map(d => d._id === id ? response.data : d)
MapReplace(ds, id, doc) == [i \in 1..Len(ds) |-> IF ds[i]._id = id THEN doc ELSE ds[i]]

RECURSIVE FilterOut(_, _)
\* drivers.filter(d => d._id !== id)
FilterOut(ds, id) ==
  IF Len(ds) = 0 THEN <<>>
  ELSE IF ds[1]._id = id THEN FilterOut(SubSeq(ds, 2, Len(ds)), id)
  ELSE <<ds[1]>> \o FilterOut(SubSeq(ds, 2, Len(ds)), id)

\* the response of call c arrives and addDriver, updateDriver or
\* deleteDriver goes on after its await: a status outside 2xx rejects the
\* await and the function throws; otherwise setDrivers is given a list
\* made from the drivers of the function's closure
DriverCallResumes(c) ==
  /\ calls[c].pc = "answered"
  /\ calls[c].fn \in { "addDriver", "updateDriver", "deleteDriver" }
  /\ IF calls[c].data.status \notin { 200, 201 }
     THEN /\ Ends(c, "threw")
          /\ local' = local
     ELSE /\ Ends(c, "returned")
          /\ local' = [local EXCEPT !.drivers =
               CASE calls[c].fn = "addDriver" ->
                      Append(calls[c].closure.drivers, calls[c].data.json)
                 [] calls[c].fn = "updateDriver" ->
                      MapReplace(calls[c].closure.drivers, calls[c].id, calls[c].data.json)
                 [] calls[c].fn = "deleteDriver" ->
                      FilterOut(calls[c].closure.drivers, calls[c].id)]
  /\ UNCHANGED <<drivers, history, clock, clientFrame>>

\* response.data of GET /simulation/history as the state holds it: the
\* object { results, pagination }, which is no array
ListingObject(data) ==
  [isArray |-> FALSE, items |-> data.results, pagination |-> data.pagination]

\* the response of call c arrives and fetchSimulationResults goes on:
\* setSimulationResults(response.data)
FetchResumes(c) ==
  /\ calls[c].pc = "answered"
  /\ calls[c].fn = "fetchSimulationResults"
  /\ Ends(c, "returned")
  /\ local' = [local EXCEPT !.simulationResults = ListingObject(calls[c].data)]
  /\ UNCHANGED <<drivers, history, clock, clientFrame>>

\* the response of call c arrives and runSimulation goes on:
\* [result, ...simulationResults] throws a TypeError when the closure's
\* simulationResults is not iterable
RunResumes(c) ==
  /\ calls[c].pc = "answered"
  /\ calls[c].fn = "runSimulation"
  /\ IF calls[c].data.status # 200 \/ ~calls[c].closure.simulationResults.isArray
     THEN /\ Ends(c, "threw")
          /\ local' = local
     ELSE /\ Ends(c, "returned")
          /\ local' = [local EXCEPT !.simulationResults =
               JsArray(<<calls[c].data.json>> \o calls[c].closure.simulationResults.items)]
  /\ UNCHANGED <<drivers, history, clock, clientFrame>>

SomeServesPostDriver == \E c \in DOMAIN calls : ServesPostDriver(c)
SomeServesPutDriver == \E c \in DOMAIN calls : ServesPutDriver(c)
SomeServesDeleteDriver == \E c \in DOMAIN calls : ServesDeleteDriver(c)
SomeServesGetHistory == \E c \in DOMAIN calls : ServesGetHistory(c)
SomeServesPostRun == \E c \in DOMAIN calls : ServesPostRun(c)
SomeDriverCallResumes == \E c \in DOMAIN calls : DriverCallResumes(c)
SomeFetchResumes == \E c \in DOMAIN calls : FetchResumes(c)
SomeRunResumes == \E c \in DOMAIN calls : RunResumes(c)

NextClient ==
  \/ AddDriverCalled
  \/ UpdateDriverCalled
  \/ DeleteDriverCalled
  \/ FetchSimulationResultsCalled
  \/ RunSimulationCalled
  \/ SomeServesPostDriver
  \/ SomeServesPutDriver
  \/ SomeServesDeleteDriver
  \/ SomeServesGetHistory
  \/ SomeServesPostRun
  \/ SomeDriverCallResumes
  \/ SomeFetchResumes
  \/ SomeRunResumes

SpecClient == InitClient /\ [][NextClient]_vars

\* the records of a list, whatever their order
RecordsOf(list) == { list[i] : i \in 1..Len(list) }

\* C29: once every call made has returned (none is in flight, none threw),
\* the local drivers list holds exactly the records the server's drivers
\* collection holds.
C29_LocalDriversMatchServer ==
  (\A c \in DOMAIN calls : calls[c].pc = "returned")
    => RecordsOf(local.drivers) = RecordsOf(drivers)

\* timestamps do not increase along the list
MostRecentFirst(list) ==
  \A i, j \in 1..Len(list) : i < j => list[i].timestamp >= list[j].timestamp

\* C30: simulationResults is at all times a list of results, most recent
\* first; when fetchSimulationResults resumes on a 200 the list becomes
\* the results the response carries; when runSimulation resumes on a 200
\* it returns and the list becomes the result followed by the list as it
\* was.
C30_ResultsListMostRecentFirst ==
  /\ [](/\ local.simulationResults.isArray
        /\ MostRecentFirst(local.simulationResults.items))
  /\ [][ \A c \in DOMAIN calls :
           (calls[c].pc = "answered" /\ calls'[c].pc # "answered"
            /\ calls[c].data.status = 200)
           => /\ calls[c].fn = "fetchSimulationResults"
                   => local'.simulationResults = JsArray(calls[c].data.results)
              /\ calls[c].fn = "runSimulation"
                   => /\ calls'[c].pc = "returned"
                      /\ local'.simulationResults
                           = JsArray(<<calls[c].data.json>> \o local.simulationResults.items) ]_vars

====
